---------------------------- MODULE Spec2Model ----------------------------
(***************************************************************************)
(* Verification model of the ficclib numerical core: swap schedules and    *)
(* leg pricing, YTM and bracket root finders, and the curve bootstraps.    *)
(*                                                                         *)
(* Dates are integers y*10000 + m*100 + d, so that integer order is date   *)
(* order.  Real numbers are held on fixed-point grids; each grid is named  *)
(* where it is introduced.                                                 *)
(***************************************************************************)
EXTENDS Integers, Sequences, FiniteSets, TLC

VARIABLES
    pc,                 \* position of the call being modelled
    effective_date,     \* build_schedule / generate_schedule argument
    maturity_date,      \* build_schedule / generate_schedule argument
    convention,         \* SwapLegConvention of the leg
    stub_type,          \* generate_schedule argument
    roll_day,           \* generate_schedule argument (0 for None)
    periods,            \* list[Period] returned by build_schedule
    gen_periods,        \* list[SchedulePeriod] returned by generate_schedule
    spec,               \* SwapSpec handed to price_swap
    curves,             \* CurveSet handed to price_swap
    valuation_date,     \* price_swap argument
    swap_pv,            \* SwapPV returned by price_swap
    bond,               \* the bond handed to a YTM solver
    settlement,         \* valuation / settlement date of the YTM solvers
    price,              \* dirty price a YTM solver inverts
    func,               \* func_and_deriv and arguments of newton_with_bisect
    ytm,                \* outcome of the YTM solver call
    residual,           \* callable handed to a bisection
    bracket,            \* (lower, upper) and limits handed to a bisection
    root,               \* outcome of the bisection call
    bonds,              \* list of (issue, maturity, coupon, dirty) handed to
                        \* bootstrap_dfs_from_bonds
    q,                  \* deque of the items still to solve
    df_by_date,         \* dict: date -> discount factor solved
    progressed,         \* whether the pass under way has solved a bond
    pass_left,          \* rounds left of the for loop of the pass under way
    nodes,              \* outcome of bootstrap_dfs_from_bonds
    solve_log,          \* history: what each solve read and stored
    ibor_call,          \* entry point and arguments of an IBOR curve build
    engine_pillars,     \* BootstrapEngine.state._pillars: date -> px
    engine_results,     \* BootstrapEngine._results, in the order appended
    swap_queue,         \* swaps the loop of the entry point has yet to visit
    context_map,        \* context['projection_map'] of the last bootstrap_swap
    ibor_build,         \* outcome of the IBOR curve build
    call,               \* a library function called and its arguments
    ret,                \* what the function called returned
    heap                \* the objects the call can reach: id -> object

schedVars == <<effective_date, maturity_date, convention, stub_type, roll_day,
               periods, gen_periods>>

priceVars == <<spec, curves, valuation_date, swap_pv>>

ytmVars == <<bond, settlement, price, func, ytm>>

bisectVars == <<residual, bracket, root>>

bootVars == <<bonds, q, df_by_date, progressed, pass_left, nodes, solve_log>>

iborVars == <<ibor_call, engine_pillars, engine_results, swap_queue,
              context_map, ibor_build>>

callVars == <<call, ret, heap>>

vars == <<pc, schedVars, priceVars, ytmVars, bisectVars, bootVars, iborVars,
          callVars>>

\* what the calls of one part of the library leave alone
notSched == <<priceVars, ytmVars, bisectVars, bootVars, iborVars, callVars>>
notPrice == <<schedVars, ytmVars, bisectVars, bootVars, iborVars, callVars>>
notYtm == <<schedVars, priceVars, bisectVars, bootVars, iborVars, callVars>>
notBisect == <<schedVars, priceVars, ytmVars, bootVars, iborVars, callVars>>
notBoot == <<schedVars, priceVars, ytmVars, bisectVars, iborVars, callVars>>
notIbor == <<schedVars, priceVars, ytmVars, bisectVars, bootVars, callVars>>
notCall == <<schedVars, priceVars, ytmVars, bisectVars, bootVars, iborVars>>

-----------------------------------------------------------------------------
(* Bounds of the model *)

\* effective dates are drawn from FirstYear, maturities from the
\* MaxTenorMonths calendar months that follow the effective month
FirstYear == 2024
MaxTenorMonths == 13

NoDate == 0
NoRate == -100000

NoConvention == [leg_type |-> "NONE"]
NoSpec == [notional |-> 0]
NoCurves == [forward_rate |-> NoRate]
NoSwapPV == [pv_total |-> 0]
NoBond == [issue |-> NoDate]
NoFunc == [kind |-> "NONE"]
NoResult == [raised |-> FALSE, method |-> "NONE"]
NoBracket == [lower |-> 0, upper |-> 0]
NoNodes == [raised |-> FALSE, nodes |-> <<>>]
NoCall == [fn |-> "NONE"]
NoBuild == [raised |-> FALSE, curve |-> <<>>]

-----------------------------------------------------------------------------
(* The state of each part of the library before any of its calls *)

SchedIdle ==
    /\ effective_date = NoDate
    /\ maturity_date = NoDate
    /\ convention = NoConvention
    /\ stub_type = "NONE"
    /\ roll_day = 0
    /\ periods = <<>>
    /\ gen_periods = <<>>

PriceIdle ==
    /\ spec = NoSpec
    /\ curves = NoCurves
    /\ valuation_date = NoDate
    /\ swap_pv = NoSwapPV

YtmIdle ==
    /\ bond = NoBond
    /\ settlement = NoDate
    /\ price = 0
    /\ func = NoFunc
    /\ ytm = NoResult

BisectIdle ==
    /\ residual = NoFunc
    /\ bracket = NoBracket
    /\ root = NoResult

BootIdle ==
    /\ bonds = <<>>
    /\ q = <<>>
    /\ df_by_date = <<>>
    /\ progressed = FALSE
    /\ pass_left = 0
    /\ nodes = NoNodes
    /\ solve_log = <<>>

IborIdle ==
    /\ ibor_call = NoCall
    /\ engine_pillars = <<>>
    /\ engine_results = <<>>
    /\ swap_queue = <<>>
    /\ context_map = <<>>
    /\ ibor_build = NoBuild

CallIdle ==
    /\ call = NoCall
    /\ ret = NoCall
    /\ heap = <<>>

-----------------------------------------------------------------------------
(* An assignment: the value is computed, once and before what follows, *)
(* and named in what follows                                            *)

With(value, Rest(_)) == CHOOSE result \in {Rest(v) : v \in {value}} : TRUE

-----------------------------------------------------------------------------
(* datetime.date *)

MkDate(y, m, d) == y * 10000 + m * 100 + d
YearOf(dt) == dt \div 10000
MonthOf(dt) == (dt \div 100) % 100
DayOf(dt) == dt % 100

IsLeap(y) == (y % 4 = 0) /\ ((y % 100 # 0) \/ (y % 400 = 0))

DaysInMonth(y, m) ==
    CASE m \in {1, 3, 5, 7, 8, 10, 12} -> 31
      [] m \in {4, 6, 9, 11} -> 30
      [] OTHER -> IF IsLeap(y) THEN 29 ELSE 28

DaysBeforeMonth(y, m) ==
    LET cum == <<0, 31, 59, 90, 120, 151, 181, 212, 243, 273, 304, 334>>
    IN cum[m] + (IF m > 2 /\ IsLeap(y) THEN 1 ELSE 0)

\* date.toordinal()
ToOrdinal(dt) ==
    LET y == YearOf(dt) - 1
    IN y * 365 + (y \div 4) - (y \div 100) + (y \div 400)
       + DaysBeforeMonth(YearOf(dt), MonthOf(dt)) + DayOf(dt)

\* date.weekday(): Monday = 0 ... Sunday = 6
Weekday(dt) == (ToOrdinal(dt) + 6) % 7

\* (b - a).days
DaysBetween(a, b) == ToOrdinal(b) - ToOrdinal(a)

\* dt + timedelta(days=1)
NextDay(dt) ==
    LET y == YearOf(dt)
        m == MonthOf(dt)
        d == DayOf(dt)
    IN IF d < DaysInMonth(y, m) THEN MkDate(y, m, d + 1)
       ELSE IF m < 12 THEN MkDate(y, m + 1, 1)
       ELSE MkDate(y + 1, 1, 1)

\* dt - timedelta(days=1)
PrevDay(dt) ==
    LET y == YearOf(dt)
        m == MonthOf(dt)
        d == DayOf(dt)
    IN IF d > 1 THEN MkDate(y, m, d - 1)
       ELSE IF m > 1 THEN MkDate(y, m - 1, DaysInMonth(y, m - 1))
       ELSE MkDate(y - 1, 12, 31)

-----------------------------------------------------------------------------
(* Calendar: the registered WEEKEND calendar (weekends only) *)

is_business_day(dt) == Weekday(dt) < 5

RECURSIVE RollForward(_)
RollForward(dt) == IF is_business_day(dt) THEN dt ELSE RollForward(NextDay(dt))

RECURSIVE RollBackward(_)
RollBackward(dt) == IF is_business_day(dt) THEN dt ELSE RollBackward(PrevDay(dt))

\* Calendar.add_business_days(start, n) for n >= 0 and n < 0
RECURSIVE add_business_days(_, _)
add_business_days(dt, n) ==
    IF n = 0 THEN RollForward(dt)
    ELSE IF n > 0 THEN add_business_days(RollForward(NextDay(dt)), n - 1)
    ELSE add_business_days(RollBackward(PrevDay(dt)), n + 1)

-----------------------------------------------------------------------------
(* swap/schedule/adjustments.py *)

adjust_date(dt, adjustment) ==
    CASE adjustment = "NO_ADJUSTMENT" -> dt
      [] adjustment = "FOLLOWING" -> RollForward(dt)
      [] adjustment = "MODIFIED_FOLLOWING" ->
            IF MonthOf(RollForward(dt)) # MonthOf(dt)
            THEN RollBackward(dt) ELSE RollForward(dt)
      [] adjustment = "PRECEDING" -> RollBackward(dt)
      [] adjustment = "MODIFIED_PRECEDING" ->
            IF MonthOf(RollBackward(dt)) # MonthOf(dt)
            THEN RollForward(dt) ELSE RollBackward(dt)

get_month_end(year, month) == MkDate(year, month, DaysInMonth(year, month))

is_end_of_month(dt) == dt = get_month_end(YearOf(dt), MonthOf(dt))

\* months_to_add may be negative; the year is carried as the code's two
\* while loops carry it
apply_end_of_month_rule(dt, months_to_add, apply_eom_rule) ==
    LET is_eom_start == is_end_of_month(dt) /\ apply_eom_rule
        raw == (YearOf(dt) * 12 + (MonthOf(dt) - 1)) + months_to_add
        new_year == raw \div 12
        new_month == (raw % 12) + 1
    IN IF is_eom_start THEN get_month_end(new_year, new_month)
       ELSE IF DayOf(dt) <= DaysInMonth(new_year, new_month)
            THEN MkDate(new_year, new_month, DayOf(dt))
            ELSE get_month_end(new_year, new_month)

-----------------------------------------------------------------------------
(* swap/valuation/schedule.py *)

LegTypes == {"FIXED", "FLOATING"}
Adjustments == {"NO_ADJUSTMENT", "FOLLOWING", "MODIFIED_FOLLOWING",
                "PRECEDING", "MODIFIED_PRECEDING"}

\* Frequency -> months; DAILY is in the mapping with 0 months
_frequency_to_months(frequency) ==
    CASE frequency = "DAILY" -> 0
      [] frequency = "MONTHLY" -> 1
      [] frequency = "QUARTERLY" -> 3
      [] frequency = "SEMIANNUAL" -> 6
      [] frequency = "ANNUAL" -> 12

_calculate_reset_and_fixing_dates(conv, accrual_start_adj, accrual_end_adj) ==
    IF ~conv.has_reset_frequency THEN <<NoDate, NoDate>>
    ELSE IF conv.reset_position = "IN_ADVANCE"
    THEN <<accrual_start_adj,
           IF conv.fixing_lag_days > 0
           THEN add_business_days(accrual_start_adj, -conv.fixing_lag_days)
           ELSE accrual_start_adj>>
    ELSE IF conv.reset_position = "IN_ARREARS"
    THEN <<accrual_end_adj, accrual_end_adj>>
    ELSE <<NoDate, NoDate>>

\* The Period built from one unadjusted pair; the caller drops it when the
\* adjusted start is not before the adjusted end.
MakePeriod(conv, idx, start_unadj, end_unadj) ==
    LET accrual_start_adj == adjust_date(start_unadj, conv.business_day_adjustment)
        accrual_end_adj == adjust_date(end_unadj, conv.business_day_adjustment)
        rf == _calculate_reset_and_fixing_dates(conv, accrual_start_adj,
                                                accrual_end_adj)
    IN [period_index |-> idx,
        accrual_start |-> start_unadj,
        accrual_end |-> end_unadj,
        accrual_start_adj |-> accrual_start_adj,
        accrual_end_adj |-> accrual_end_adj,
        reset_date |-> rf[1],
        fixing_date |-> rf[2],
        payment_date |-> IF conv.pay_delay_days > 0
                         THEN add_business_days(accrual_end_adj,
                                                conv.pay_delay_days)
                         ELSE accrual_end_adj]

\* The while loop of the backward mode (lines 114-132): the regular pairs
\* stepped back from maturity and first_end_after_start (NoDate for None).
RECURSIVE BackwardAnchors(_, _, _, _)
BackwardAnchors(current_end_unadj, eff, period_months, unadj_pairs) ==
    IF ~(current_end_unadj > eff)
    THEN [pairs |-> unadj_pairs, first_end_after_start |-> NoDate]
    ELSE LET prev_start_unadj ==
                 apply_end_of_month_rule(current_end_unadj, -period_months, TRUE)
         IN IF prev_start_unadj <= eff
            THEN [pairs |-> unadj_pairs,
                  first_end_after_start |->
                      IF prev_start_unadj = eff THEN current_end_unadj
                      ELSE apply_end_of_month_rule(current_end_unadj,
                                                   period_months, TRUE)]
            ELSE BackwardAnchors(prev_start_unadj, eff, period_months,
                     Append(unadj_pairs, <<prev_start_unadj, current_end_unadj>>))

\* list.sort(key=lambda x: x[0]): stable insertion by the start date
RECURSIVE InsertByStart(_, _)
InsertByStart(sorted, p) ==
    IF sorted = <<>> THEN <<p>>
    ELSE IF p[1] < Head(sorted)[1] THEN <<p>> \o sorted
    ELSE <<Head(sorted)>> \o InsertByStart(Tail(sorted), p)

RECURSIVE SortByStart(_)
SortByStart(pairs) ==
    IF pairs = <<>> THEN <<>>
    ELSE InsertByStart(SortByStart(SubSeq(pairs, 1, Len(pairs) - 1)),
                       pairs[Len(pairs)])

\* Lines 134-150: the pairs the while loop left, with the initial period
\* that starts at the effective date, earliest first
InitialPairAdded(walk, eff, period_months) ==
    LET first_end == walk.first_end_after_start
        prior_start == apply_end_of_month_rule(first_end, -period_months, TRUE)
        kept == SelectSeq(walk.pairs,
                          LAMBDA p : ~(p[1] = prior_start /\ p[2] = first_end))
    IN IF first_end = NoDate THEN SortByStart(walk.pairs)
       ELSE SortByStart(Append(kept, <<eff, first_end>>))

\* Lines 110-150: the unadjusted pairs of the backward mode
BackwardPairs(eff, mat, period_months) ==
    InitialPairAdded(BackwardAnchors(mat, eff, period_months, <<>>), eff,
                     period_months)

\* Lines 151-189: enumerate(unadj_pairs, start=1), skipping empty periods
RECURSIVE BackwardPeriods(_, _, _)
BackwardPeriods(conv, pairs, idx) ==
    IF idx > Len(pairs) THEN <<>>
    ELSE LET p == MakePeriod(conv, idx, pairs[idx][1], pairs[idx][2])
         IN IF p.accrual_start_adj >= p.accrual_end_adj
            THEN BackwardPeriods(conv, pairs, idx + 1)
            ELSE <<p>> \o BackwardPeriods(conv, pairs, idx + 1)

\* Lines 193-250: the forward mode
RECURSIVE ForwardPeriods(_, _, _, _, _, _)
ForwardPeriods(conv, current_start, mat, period_months, preserve_eom, period_idx) ==
    IF ~(current_start < mat) THEN <<>>
    ELSE LET stepped == apply_end_of_month_rule(current_start, period_months,
                                                preserve_eom)
             current_end == IF stepped > mat THEN mat ELSE stepped
             p == MakePeriod(conv, period_idx, current_start, current_end)
         IN IF current_start >= current_end THEN <<>>
            ELSE IF p.accrual_start_adj >= p.accrual_end_adj THEN <<>>
            ELSE <<p>> \o ForwardPeriods(conv, current_end, mat, period_months,
                                         preserve_eom, period_idx + 1)

\* RollConvention has the single member BACKWARD_EOM, so build_backward is
\* decided by the leg type alone (lines 89-106).
build_schedule(eff, mat, conv) ==
    LET period_months == _frequency_to_months(conv.pay_frequency)
        build_backward == conv.leg_type # "FLOATING"
    IN IF build_backward
       THEN BackwardPeriods(conv, BackwardPairs(eff, mat, period_months), 1)
       ELSE ForwardPeriods(conv, eff, mat, period_months,
                           is_end_of_month(eff), 1)

-----------------------------------------------------------------------------
(* swap/schedule/generator.py: ScheduleGenerator *)

StubTypes == {"NO_STUB", "SHORT_INITIAL", "LONG_INITIAL", "SHORT_FINAL",
              "LONG_FINAL"}

\* rollday is the roll_day argument; 0 stands for None
_add_period(start_date, months, rollday, subtract) ==
    LET months_delta == months * (IF subtract THEN -1 ELSE 1)
        raw == (YearOf(start_date) * 12 + (MonthOf(start_date) - 1)) + months_delta
        result_year == raw \div 12
        result_month == (raw % 12) + 1
    IN IF rollday # 0
       THEN IF rollday <= DaysInMonth(result_year, result_month)
            THEN MkDate(result_year, result_month, rollday)
            ELSE get_month_end(result_year, result_month)
       ELSE apply_end_of_month_rule(start_date, months_delta, TRUE)

_subtract_period(start_date, months, rollday) ==
    _add_period(start_date, months, rollday, TRUE)

\* The empty list stands for the ValueError of a schedule that does not align
\* (a schedule that is returned has at least two dates)
RECURSIVE _generate_no_stub_schedule(_, _, _, _, _)
_generate_no_stub_schedule(dates, current, mat, months, rollday) ==
    IF current < mat
    THEN LET next_date == _add_period(current, months, rollday, FALSE)
         IN IF next_date > mat THEN <<>>
            ELSE _generate_no_stub_schedule(Append(dates, next_date), next_date,
                                            mat, months, rollday)
    ELSE IF current # mat THEN <<>> ELSE dates

RECURSIVE _generate_final_stub_schedule(_, _, _, _, _, _)
_generate_final_stub_schedule(dates, current, mat, months, stub, rollday) ==
    LET next_date == _add_period(current, months, rollday, FALSE)
        following_date == _add_period(next_date, months, rollday, FALSE)
    IN IF stub = "SHORT_FINAL"
       THEN IF next_date >= mat
            THEN Append(dates, IF next_date = mat THEN next_date ELSE mat)
            ELSE _generate_final_stub_schedule(Append(dates, next_date),
                     next_date, mat, months, stub, rollday)
       ELSE IF following_date > mat
            THEN Append(dates, mat)
            ELSE _generate_final_stub_schedule(Append(dates, next_date),
                     next_date, mat, months, stub, rollday)

\* The backward loop of _generate_initial_stub_schedule (lines 215-220)
RECURSIVE RegularDatesBackward(_, _, _, _, _)
RegularDatesBackward(regular_dates, current, eff, months, rollday) ==
    IF ~(current > eff) THEN regular_dates
    ELSE LET prev_date == _subtract_period(current, months, rollday)
         IN IF prev_date <= eff THEN regular_dates
            ELSE RegularDatesBackward(<<prev_date>> \o regular_dates, prev_date,
                                      eff, months, rollday)

_generate_initial_stub_schedule(eff, mat, months, stub, rollday) ==
    LET regular_dates == RegularDatesBackward(<<>>, mat, eff, months, rollday)
    IN IF regular_dates # <<>>
       THEN IF stub = "SHORT_INITIAL"
            THEN <<eff>> \o regular_dates \o <<mat>>
            ELSE IF _subtract_period(regular_dates[1], months, rollday) <= eff
                 THEN <<eff>> \o Tail(regular_dates) \o <<mat>>
                 ELSE <<eff>> \o regular_dates \o <<mat>>
       ELSE <<eff, mat>>

_generate_unadjusted_dates(eff, mat, months, stub, rollday) ==
    IF stub = "NO_STUB"
    THEN _generate_no_stub_schedule(<<eff>>, eff, mat, months, rollday)
    ELSE IF stub \in {"SHORT_FINAL", "LONG_FINAL"}
    THEN _generate_final_stub_schedule(<<eff>>, eff, mat, months, stub, rollday)
    ELSE _generate_initial_stub_schedule(eff, mat, months, stub, rollday)

_is_stub_period(months, start_date, end_date) ==
    LET actual_months == (YearOf(end_date) - YearOf(start_date)) * 12
                         + MonthOf(end_date) - MonthOf(start_date)
    IN actual_months # months

\* Lines 72-112.  year_fraction is held as the day count of the adjusted
\* accrual dates (the numerator of ACT/360).
RECURSIVE SchedulePeriods(_, _, _, _, _)
SchedulePeriods(unadj_dates, i, prev_accrual_end_adj, adjustment, months) ==
    IF i > Len(unadj_dates) - 1 THEN <<>>
    ELSE LET start_adj == adjust_date(unadj_dates[i], adjustment)
             end_adj == adjust_date(unadj_dates[i + 1], adjustment)
             accrual_start == IF i = 1 THEN start_adj ELSE prev_accrual_end_adj
             period == [start_date |-> start_adj,
                        end_date |-> end_adj,
                        payment_date |-> end_adj,
                        accrual_start |-> accrual_start,
                        accrual_end |-> end_adj,
                        year_fraction |-> DaysBetween(accrual_start, end_adj),
                        is_stub |-> _is_stub_period(months, unadj_dates[i],
                                                    unadj_dates[i + 1])]
         IN <<period>> \o SchedulePeriods(unadj_dates, i + 1, end_adj,
                                          adjustment, months)

\* raised stands for the ValueError of lines 65, 153 and 158
generate_schedule(eff, mat, conv, stub, rollday) ==
    LET months == _frequency_to_months(conv.pay_frequency)
        adj_effective == adjust_date(eff, conv.business_day_adjustment)
        adj_maturity == adjust_date(mat, conv.business_day_adjustment)
        unadj_dates == _generate_unadjusted_dates(eff, mat, months, stub, rollday)
    IN IF adj_effective >= adj_maturity \/ unadj_dates = <<>>
       THEN [raised |-> TRUE, periods |-> <<>>]
       ELSE [raised |-> FALSE,
             periods |-> SchedulePeriods(unadj_dates, 1, NoDate,
                                         conv.business_day_adjustment, months)]

-----------------------------------------------------------------------------
(* swap/valuation/pv.py                                                    *)
(*                                                                         *)
(* Rates are integers in basis points, accrual fractions are ACT/360 day   *)
(* counts and discount factors are in units of 1/DfOne, so a coupon        *)
(* payment is held in units of 1/PaymentUnit and a pv in units of          *)
(* 1/(PaymentUnit * DfOne).                                                *)

DfOne == 10
PaymentUnit == 360 * 10000

\* calculate_forward_rate on a projection curve that is flat in simple-rate
\* terms: (df_start / df_end - 1) / alpha is the curve's one forward rate
calculate_forward_rate(period, conv, cs) == cs.forward_rate

\* get_discount_factor on an OIS curve that gives one discount factor
get_discount_factor(payment_date, cs) == cs.discount_factor

_price_coupon(period, conv, sp, cs, direction, spread_bp) ==
    LET accrual_fraction == DaysBetween(period.accrual_start_adj,
                                        period.accrual_end_adj)
        is_floating == conv.leg_type = "FLOATING"
        forward_rate == IF is_floating
                        THEN calculate_forward_rate(period, conv, cs)
                        ELSE NoRate
        fixed_rate == IF is_floating THEN NoRate ELSE 0
        effective_rate == IF is_floating THEN forward_rate + spread_bp
                          ELSE fixed_rate
        df_payment == get_discount_factor(period.payment_date, cs)
        df_spot == get_discount_factor(sp.effective_date, cs)
        discount_factor ==
            IF /\ sp.discount_coupons_from_spot
               /\ sp.include_principal_exchanges
               /\ period.payment_date >= sp.effective_date
               /\ df_spot # 0
            THEN (df_payment * DfOne) \div df_spot
            ELSE df_payment
        sign == IF direction = "PAY" THEN -1 ELSE 1
        coupon_payment == sign * sp.notional * accrual_fraction * effective_rate
    IN [idx |-> period.period_index,
        accrual_start |-> period.accrual_start_adj,
        accrual_end |-> period.accrual_end_adj,
        reset_date |-> period.reset_date,
        fixing_date |-> period.fixing_date,
        payment_date |-> period.payment_date,
        accrual_fraction |-> accrual_fraction,
        forward_rate |-> forward_rate,
        fixed_rate |-> fixed_rate,
        discount_factor |-> discount_factor,
        pv |-> coupon_payment * discount_factor,
        notional |-> sp.notional,
        payment |-> coupon_payment]

_price_principal_cashflow(payment_date, sp, cs, direction, is_initial) ==
    LET discount_factor == get_discount_factor(payment_date, cs)
        sign == IF is_initial
                THEN (IF direction = "RECEIVE" THEN -1 ELSE 1)
                ELSE (IF direction = "RECEIVE" THEN 1 ELSE -1)
        principal_payment == sign * sp.notional * PaymentUnit
    IN [idx |-> IF is_initial THEN 0 ELSE -1,
        accrual_start |-> payment_date,
        accrual_end |-> payment_date,
        reset_date |-> NoDate,
        fixing_date |-> NoDate,
        payment_date |-> payment_date,
        accrual_fraction |-> 0,
        forward_rate |-> NoRate,
        fixed_rate |-> NoRate,
        discount_factor |-> discount_factor,
        pv |-> principal_payment * discount_factor,
        notional |-> sp.notional,
        payment |-> principal_payment]

RECURSIVE SumPV(_)
SumPV(cashflows) ==
    IF cashflows = <<>> THEN 0 ELSE Head(cashflows).pv + SumPV(Tail(cashflows))

\* Lines 157-172: the coupons of the periods not yet paid
RECURSIVE CouponCashflows(_, _, _, _, _, _, _)
CouponCashflows(ps, conv, sp, cs, vd, direction, spread_bp) ==
    IF ps = <<>> THEN <<>>
    ELSE IF Head(ps).payment_date < vd
    THEN CouponCashflows(Tail(ps), conv, sp, cs, vd, direction, spread_bp)
    ELSE <<_price_coupon(Head(ps), conv, sp, cs, direction, spread_bp)>>
         \o CouponCashflows(Tail(ps), conv, sp, cs, vd, direction, spread_bp)

price_leg(sp, leg_convention, cs, vd, direction, spread_bp, include_principals) ==
    LET initial == IF include_principals /\ sp.effective_date >= vd
                   THEN <<_price_principal_cashflow(sp.effective_date, sp, cs,
                                                    direction, TRUE)>>
                   ELSE <<>>
        final == IF include_principals /\ sp.maturity_date >= vd
                 THEN <<_price_principal_cashflow(sp.maturity_date, sp, cs,
                                                  direction, FALSE)>>
                 ELSE <<>>
    IN With(build_schedule(sp.effective_date, sp.maturity_date, leg_convention),
            LAMBDA ps :
       With(initial
            \o CouponCashflows(ps, leg_convention, sp, cs, vd, direction, spread_bp)
            \o final,
            LAMBDA cashflows :
       [spec |-> leg_convention,
        direction |-> direction,
        pv |-> SumPV(cashflows),
        cashflows |-> cashflows]))

price_swap(sp, cs, vd) ==
    With(price_leg(sp, sp.pay_leg, cs, vd, "PAY",
                   sp.pay_leg_spread, sp.include_principal_exchanges),
         LAMBDA pay_leg_pv :
    With(price_leg(sp, sp.rec_leg, cs, vd, "RECEIVE",
                   sp.rec_leg_spread, sp.include_principal_exchanges),
         LAMBDA rec_leg_pv :
    [pv_total |-> rec_leg_pv.pv + pay_leg_pv.pv,
     pay_leg_pv |-> pay_leg_pv,
     rec_leg_pv |-> rec_leg_pv]))

\* The predefined leg conventions of swap/instruments/swap.py
EUR_IRS_FIXED ==
    [leg_type |-> "FIXED", pay_frequency |-> "ANNUAL",
     business_day_adjustment |-> "MODIFIED_FOLLOWING", pay_delay_days |-> 1,
     has_reset_frequency |-> FALSE, reset_position |-> "NONE",
     fixing_lag_days |-> 0]

EURIBOR_6M_FLOATING ==
    [leg_type |-> "FLOATING", pay_frequency |-> "SEMIANNUAL",
     business_day_adjustment |-> "MODIFIED_FOLLOWING", pay_delay_days |-> 0,
     has_reset_frequency |-> TRUE, reset_position |-> "IN_ADVANCE",
     fixing_lag_days |-> 2]

EURIBOR_3M_FLOATING ==
    [leg_type |-> "FLOATING", pay_frequency |-> "QUARTERLY",
     business_day_adjustment |-> "MODIFIED_FOLLOWING", pay_delay_days |-> 0,
     has_reset_frequency |-> TRUE, reset_position |-> "IN_ADVANCE",
     fixing_lag_days |-> 2]

-----------------------------------------------------------------------------
(* Schedule calls: the inputs are drawn in Init, one action per generator *)

\* days of the month the schedule inputs are drawn from
ScheduleDays == {15, 30, 31}

Frequencies == {"MONTHLY", "QUARTERLY", "SEMIANNUAL", "ANNUAL"}

\* roll_day values passed to generate_schedule (0 for None)
RollDays == {0, 31}

MonthIndex(dt) == YearOf(dt) * 12 + (MonthOf(dt) - 1)

\* months of FirstYear the effective dates are drawn from
EffectiveMonths == {1, 3, 5, 8, 11}

EffectiveDates ==
    {dt \in {MkDate(FirstYear, m, d) : m \in EffectiveMonths, d \in ScheduleDays} :
        DayOf(dt) <= DaysInMonth(YearOf(dt), MonthOf(dt))}

MaturityDates(eff) ==
    {dt \in {MkDate(y, m, d) : y \in FirstYear..(FirstYear + 1 + MaxTenorMonths \div 12),
                               m \in 1..12, d \in ScheduleDays} :
        /\ DayOf(dt) <= DaysInMonth(YearOf(dt), MonthOf(dt))
        /\ dt > eff
        /\ MonthIndex(dt) - MonthIndex(eff) <= MaxTenorMonths}

\* The leg conventions: the fields that do not enter the schedule dates take
\* the values of the predefined conventions of swap/instruments/swap.py
\* (fixed legs: no reset, pay delay 1; EURIBOR floating legs: reset in
\* advance, fixing lag 2, pay delay 0).
Conventions ==
    {[leg_type |-> lt,
      pay_frequency |-> fr,
      business_day_adjustment |-> a,
      pay_delay_days |-> IF lt = "FIXED" THEN 1 ELSE 0,
      has_reset_frequency |-> lt = "FLOATING",
      reset_position |-> IF lt = "FLOATING" THEN "IN_ADVANCE" ELSE "NONE",
      fixing_lag_days |-> IF lt = "FLOATING" THEN 2 ELSE 0] :
        lt \in LegTypes, fr \in Frequencies, a \in Adjustments}

InitSched ==
    /\ PriceIdle /\ YtmIdle /\ BisectIdle /\ BootIdle /\ IborIdle /\ CallIdle
    /\ pc = "input"
    /\ effective_date \in EffectiveDates
    /\ maturity_date \in MaturityDates(effective_date)
    /\ convention \in Conventions
    /\ stub_type = "NONE"
    /\ roll_day = 0
    /\ periods = <<>>
    /\ gen_periods = <<>>

\* build_schedule(effective_date, maturity_date, convention)
BuildSchedule ==
    /\ pc = "input"
    /\ periods' = build_schedule(effective_date, maturity_date, convention)
    /\ pc' = "build_schedule"
    /\ UNCHANGED <<effective_date, maturity_date, convention, stub_type,
                   roll_day, gen_periods, notSched>>

\* ScheduleGenerator(convention).generate_schedule(effective_date,
\*     maturity_date, convention.pay_frequency, day_count, stub, rd)
GenerateSchedule ==
    /\ pc = "input"
    /\ \E stub \in StubTypes, rd \in RollDays :
         LET r == generate_schedule(effective_date, maturity_date, convention,
                                    stub, rd)
         IN /\ stub_type' = stub
            /\ roll_day' = rd
            /\ gen_periods' = r.periods
            /\ pc' = IF r.raised THEN "generate_raised" ELSE "generate_schedule"
    /\ UNCHANGED <<effective_date, maturity_date, convention, periods,
                   notSched>>

NextSched == BuildSchedule \/ GenerateSchedule

SpecSched == InitSched /\ [][NextSched]_vars

-----------------------------------------------------------------------------
(* Claims about the schedules *)

Min(a, b) == IF a < b THEN a ELSE b

\* The unadjusted periods tile [eff, mat]
Tiles(ps, eff, mat) ==
    /\ Len(ps) >= 1
    /\ ps[1].accrual_start = eff
    /\ \A i \in 1..(Len(ps) - 1) : ps[i + 1].accrual_start = ps[i].accrual_end
    /\ ps[Len(ps)].accrual_end = mat

\* C2: in backward-anchored mode (fixed legs) the unadjusted periods returned
\* by build_schedule tile [effective, maturity]: the first starts at
\* effective, each later one starts where the previous one ends, and the last
\* ends at maturity.  Stated for legs without business-day adjustment, where
\* no period is dropped for an empty adjusted accrual.
C2_BackwardTiles ==
    (/\ pc = "build_schedule"
     /\ convention.leg_type = "FIXED"
     /\ convention.business_day_adjustment = "NO_ADJUSTMENT")
        => Tiles(periods, effective_date, maturity_date)

\* C3: every period returned by build_schedule and by generate_schedule has
\* its adjusted accrual end strictly after its adjusted accrual start.
C3_AccrualEndAfterStart ==
    /\ pc = "build_schedule" =>
          \A i \in 1..Len(periods) :
              periods[i].accrual_end_adj > periods[i].accrual_start_adj
    /\ pc = "generate_schedule" =>
          \A i \in 1..Len(gen_periods) :
              gen_periods[i].accrual_end > gen_periods[i].accrual_start

\* C4: in forward-anchored mode (floating legs) every period end falls on the
\* effective date's day of month, or on the month end when that day does not
\* exist there (or when the effective date is itself a month end); only the
\* last end may instead be the maturity.
OnEffectiveDay(end, eff) ==
    \/ DayOf(end) = Min(DayOf(eff), DaysInMonth(YearOf(end), MonthOf(end)))
    \/ is_end_of_month(eff) /\ is_end_of_month(end)

C4_ForwardKeepsEffectiveDay ==
    (pc = "build_schedule" /\ convention.leg_type = "FLOATING")
        => \A i \in 1..Len(periods) :
              \/ OnEffectiveDay(periods[i].accrual_end, effective_date)
              \/ i = Len(periods) /\ periods[i].accrual_end = maturity_date

-----------------------------------------------------------------------------
(* Pricing calls: one action per price_swap call *)

\* fixed rates a caller carries on the specification, in basis points
FixedRates == {0, 250, 325}
\* the largest notional priced
MaxNotional == 2

PriceEffectiveDates == {MkDate(FirstYear, 1, 15), MkDate(FirstYear, 5, 31)}

\* SwapSpec declares no fixed-rate field and the dataclass is not frozen: the
\* fixed_rate field of the record is the rate the caller sets on the
\* specification for its fixed leg.
SwapSpecs ==
    {[notional |-> n,
      effective_date |-> eff,
      maturity_date |-> mat,
      pay_leg |-> pl,
      rec_leg |-> rl,
      pay_leg_spread |-> 0,
      rec_leg_spread |-> rs,
      fixed_rate |-> k,
      include_principal_exchanges |-> ipe,
      discount_coupons_from_spot |-> dcs] :
        n \in 1..MaxNotional,
        eff \in PriceEffectiveDates,
        mat \in {MkDate(FirstYear, 11, 30), MkDate(FirstYear + 1, 1, 15),
                 MkDate(FirstYear + 1, 5, 31)},
        pl \in {EUR_IRS_FIXED, EURIBOR_6M_FLOATING},
        rl \in {EUR_IRS_FIXED, EURIBOR_3M_FLOATING},
        rs \in {0, 25},
        k \in FixedRates,
        ipe \in BOOLEAN,
        dcs \in BOOLEAN}

CurveSets == {[forward_rate |-> fwd, discount_factor |-> d] :
                 fwd \in {-50, 300}, d \in {DfOne - 1, DfOne}}

InitPrice ==
    /\ SchedIdle /\ YtmIdle /\ BisectIdle /\ BootIdle /\ IborIdle /\ CallIdle
    /\ pc = "input"
    /\ spec \in SwapSpecs
    /\ curves \in CurveSets
    /\ valuation_date \in {spec.effective_date, MkDate(FirstYear, 12, 15)}
    /\ swap_pv = NoSwapPV

\* price_swap(spec, curves, valuation_date)
PriceSwap ==
    /\ pc = "input"
    /\ swap_pv' = price_swap(spec, curves, valuation_date)
    /\ pc' = "price_swap"
    /\ UNCHANGED <<spec, curves, valuation_date, notPrice>>

NextPrice == PriceSwap

SpecPrice == InitPrice /\ [][NextPrice]_vars

\* The coupons of a leg's cashflows (principal exchanges carry idx 0 and -1)
Coupons(leg_pv) == SelectSeq(leg_pv.cashflows, LAMBDA cf : cf.idx >= 1)

FixedCouponsUseRate(leg_pv, sign, rate) ==
    leg_pv.spec.leg_type = "FIXED" =>
        \A i \in 1..Len(Coupons(leg_pv)) :
            Coupons(leg_pv)[i].payment =
                sign * spec.notional * Coupons(leg_pv)[i].accrual_fraction * rate

\* C1: when price_swap prices a fixed leg, every coupon's payment is
\* sign x notional x accrual fraction x the fixed rate carried by the swap
\* specification.
C1_FixedCouponUsesSpecRate ==
    pc = "price_swap" =>
        /\ FixedCouponsUseRate(swap_pv.pay_leg_pv, -1, spec.fixed_rate)
        /\ FixedCouponsUseRate(swap_pv.rec_leg_pv, 1, spec.fixed_rate)


-----------------------------------------------------------------------------
(* Fixed-point arithmetic of the bond solvers                              *)
(*                                                                         *)
(* Yields and yield tolerances are integers in units of 1/YieldOne,        *)
(* compounding factors are in units of 1/DiscOne and prices are in         *)
(* currency units.  Every quotient is rounded to the nearest unit.  A      *)
(* tolerance on a price is the tolerance in yield units divided by         *)
(* YieldOne plus PriceRounding, the error the rounding leaves on a price:   *)
(* a residual within PriceRounding of zero is not told from zero.          *)

YieldOne == 1000000
DiscOne == 10000
YieldPerDisc == YieldOne \div DiscOne

Max(a, b) == IF a > b THEN a ELSE b
Abs(x) == IF x < 0 THEN -x ELSE x

RoundDiv(a, b) ==
    LET magnitude == (Abs(a) + (Abs(b) \div 2)) \div Abs(b)
    IN IF (a < 0) = (b < 0) THEN magnitude ELSE -magnitude

\* 0.5 * (lower + upper): an exact half that is not on the grid goes to the
\* even neighbour, as a float sum does
Mid(lower, upper) ==
    LET total == lower + upper
        half == total \div 2
    IN IF total % 2 = 0 THEN half
       ELSE IF half % 2 = 0 THEN half ELSE half + 1

\* the largest Newton step held, in units of 1/YieldOne: it is beyond every
\* bracket and every clamp of the solvers
StepCap == 4 * YieldOne

\* value / deriv in yield units, for a value in currency units and a
\* derivative in currency units per unit of yield; the quotient is taken in
\* two stages of a thousand
StepOf(value, deriv) ==
    LET d == Abs(deriv)
        n1 == Abs(value) * 1000
        q1 == n1 \div d
        r1 == n1 % d
        magnitude == IF q1 >= StepCap \div 1000 THEN StepCap
                     ELSE q1 * 1000 + RoundDiv(r1 * 1000, d)
    IN IF (value < 0) = (deriv < 0) THEN magnitude ELSE -magnitude

PriceRounding == 1

ValueTol(tol) == (tol \div YieldOne) + PriceRounding

-----------------------------------------------------------------------------
(* bond/ktb/bond.py: KTB.  The coupon is held in basis points. *)

\* relativedelta(months=n) added to a date; also utils/schedule._add_months
_add_months(dt, months) ==
    LET k == MonthOf(dt) - 1 + months
        year == YearOf(dt) + (k \div 12)
        month == (k % 12) + 1
    IN MkDate(year, month, Min(DayOf(dt), DaysInMonth(year, month)))

KTB(issue, maturity, coupon, pymt_freq, face_value) ==
    [issue |-> issue, maturity |-> maturity, coupon |-> coupon,
     pymt_freq |-> pymt_freq, face_value |-> face_value]

coupon_amount(face, coupon_rate, payments_per_year) ==
    RoundDiv(face * coupon_rate, 10000 * payments_per_year)

RECURSIVE PaymentDates(_, _, _)
PaymentDates(current_date, maturity, pymt_freq) ==
    IF current_date <= maturity
    THEN <<current_date>>
         \o PaymentDates(_add_months(current_date, pymt_freq), maturity, pymt_freq)
    ELSE <<>>

payment_schedule(kb) ==
    With(PaymentDates(_add_months(kb.issue, kb.pymt_freq), kb.maturity, kb.pymt_freq),
         LAMBDA dates : IF dates = <<>> THEN <<kb.maturity>> ELSE dates)

\* (date, amount) pairs; the final payment includes the principal
cash_flows(kb) ==
    LET coupon == coupon_amount(kb.face_value, kb.coupon, 12 \div kb.pymt_freq)
    IN With(payment_schedule(kb), LAMBDA dates :
       [i \in 1..Len(dates) |->
           <<dates[i], IF i = Len(dates) THEN kb.face_value + coupon ELSE coupon>>])

\* the flows strictly after a date
FlowsAfter(flows, as_of) == SelectSeq(flows, LAMBDA cf : cf[1] > as_of)

-----------------------------------------------------------------------------
(* bond/ktb/greeks.py *)

RECURSIVE AdjacentFrom(_, _, _, _)
AdjacentFrom(flows, i, prev_dt, as_of) ==
    IF i > Len(flows) THEN <<flows[Len(flows)][1], flows[Len(flows)][1]>>
    ELSE IF flows[i][1] <= as_of
    THEN AdjacentFrom(flows, i + 1, flows[i][1], as_of)
    ELSE <<prev_dt, flows[i][1]>>

_adjacent_payment_dates_like_futures(kb, as_of) ==
    With(cash_flows(kb), LAMBDA flows :
       IF flows = <<>> THEN <<kb.issue, kb.maturity>>
       ELSE IF as_of < flows[1][1] THEN <<kb.issue, flows[1][1]>>
       ELSE AdjacentFrom(flows, 1, flows[1][1], as_of))

\* Lines 78-85: after i rounds pow_inv_i = discount^-i, S0 and S1 are the sums
RECURSIVE PowerSums(_, _, _, _, _, _)
PowerSums(inv, num_payments_remaining, i, pow_inv_i, S0, S1) ==
    IF i >= num_payments_remaining
    THEN [pow_inv_i |-> pow_inv_i, S0 |-> S0, S1 |-> S1]
    ELSE PowerSums(inv, num_payments_remaining, i + 1,
                   RoundDiv(pow_inv_i * inv, DiscOne),
                   S0 + pow_inv_i,
                   IF i > 0 THEN S1 + i * RoundDiv(pow_inv_i * inv, DiscOne)
                   ELSE S1)

\* (price, dPrice/dy)
_bond_price_and_derivative(y_decimal, coupon_rate_decimal, coupons_per_year, num_payments_remaining, prev_coupon_date, next_coupon_date, val_date, face_value) ==
    IF num_payments_remaining <= 0 THEN <<0, 0>>
    ELSE
    LET m == coupons_per_year
        discount_ratio == DiscOne + RoundDiv(y_decimal, m * YieldPerDisc)
        coupon == coupon_amount(face_value, coupon_rate_decimal, m)
        inv == RoundDiv(DiscOne * DiscOne, discount_ratio)
        d == DaysBetween(val_date, next_coupon_date)
        t == Max(DaysBetween(prev_coupon_date, next_coupon_date), 1)
        k == RoundDiv(d * DiscOne, t * m)
        denom == DiscOne + RoundDiv(d * y_decimal, t * m * YieldPerDisc)
    IN With(PowerSums(inv, num_payments_remaining, 0, DiscOne, 0, 0), LAMBDA sums :
       LET disc_pow_N_minus_1 == RoundDiv(sums.pow_inv_i * DiscOne, inv)
           disc_pow_N == sums.pow_inv_i
           A == RoundDiv(coupon * sums.S0 + face_value * disc_pow_N_minus_1, DiscOne)
           A_prime == -RoundDiv(coupon * sums.S1
                                + face_value * (num_payments_remaining - 1) * disc_pow_N,
                                DiscOne * m)
           bond_price == RoundDiv(A * DiscOne, denom)
           dprice == RoundDiv(RoundDiv(A_prime * denom - A * k, denom) * DiscOne, denom)
       IN <<bond_price, dprice>>)

\* |fv| < 1e-8 on the price grid: within the rounding of a price
NewtonRaphsonTol == 1 + PriceRounding
NewtonRaphsonIterations == 50

\* the closure f of ytm_by_price_newton_raphson: (price - target, dPrice/dy)
NewtonRaphsonF(g, yv) ==
    With(_bond_price_and_derivative(yv, g.coupon_decimal, g.coupons_per_year,
                                    g.remaining, g.prev_dt, g.next_dt,
                                    g.valuation, 10000),
         LAMBDA pd : <<pd[1] - g.target, pd[2]>>)

\* Lines 158-166: the next iterate, kept within [yL, yH]
NewtonRaphsonNext(y, fv, dfv, yL, yH) ==
    LET stepped == IF dfv # 0 THEN y - StepOf(fv, dfv) ELSE Mid(yL, yH)
    IN IF ~(yL <= stepped /\ stepped <= yH)
       THEN Max(yL, Min(yH, stepped))
       ELSE stepped

\* Lines 155-176: one round of the for loop.  The state of the loop is the
\* iterate y, the bracket (yL, fL, yH, fH) and whether line 158 has returned;
\* a loop that has returned stays as it is.
NewtonRaphsonRound(g, s) ==
    IF s.returned THEN s
    ELSE
    With(NewtonRaphsonF(g, s.y), LAMBDA fd :
    IF Abs(fd[1]) < NewtonRaphsonTol THEN [s EXCEPT !.returned = TRUE]
    ELSE
    With(NewtonRaphsonNext(s.y, fd[1], fd[2], s.yL, s.yH), LAMBDA y_new :
    With(NewtonRaphsonF(g, y_new)[1], LAMBDA fv_new :
    LET fv == fd[1]
        high == s.fL * fv_new <= 0 /\ y_new < s.y
        low == ~high /\ s.fH * fv_new <= 0 /\ y_new > s.y
    IN [y |-> y_new,
        yL |-> IF low THEN s.y ELSE s.yL, fL |-> IF low THEN fv ELSE s.fL,
        yH |-> IF high THEN s.y ELSE s.yH, fH |-> IF high THEN fv ELSE s.fH,
        returned |-> FALSE])))

\* n rounds of the loop, as two runs of rounds one after the other
RECURSIVE NewtonRaphsonLoop(_, _, _)
NewtonRaphsonLoop(g, s, n) ==
    IF n = 0 THEN s
    ELSE IF n = 1 THEN NewtonRaphsonRound(g, s)
    ELSE With(NewtonRaphsonLoop(g, s, n \div 2),
              LAMBDA t : NewtonRaphsonLoop(g, t, n - (n \div 2)))

\* Lines 155-178 from the first bracket: line 158 returns the converged
\* yield, line 178 returns the last iterate
NewtonRaphsonSolve(g, y, yL, fL, yH, fH) ==
    With(NewtonRaphsonLoop(g, [y |-> y, yL |-> yL, fL |-> fL, yH |-> yH,
                               fH |-> fH, returned |-> FALSE],
                           NewtonRaphsonIterations),
         LAMBDA s :
         [raised |-> FALSE, root |-> Max(0, s.y),
          method |-> IF s.returned THEN "newton" ELSE "last_iterate",
          width |-> s.yH - s.yL])

\* the arguments of the closure f for one call
NewtonRaphsonProblem(target, issue, maturity, valuation, coupon_decimal, coupons_per_year) ==
    LET pymt_freq_months == RoundDiv(12, coupons_per_year)
        kb == KTB(issue, maturity, coupon_decimal, pymt_freq_months, 10000)
        adjacent == _adjacent_payment_dates_like_futures(kb, valuation)
    IN [coupon_decimal |-> coupon_decimal,
        coupons_per_year |-> coupons_per_year,
        remaining |-> Len(FlowsAfter(cash_flows(kb), valuation)),
        prev_dt |-> adjacent[1],
        next_dt |-> adjacent[2],
        valuation |-> valuation,
        target |-> target]

ytm_by_price_newton_raphson(target, issue, maturity, valuation, coupon_decimal, coupons_per_year) ==
    LET y == Max(0, Min(YieldOne \div 5, coupon_decimal * (YieldOne \div 10000)))
    IN
    With(NewtonRaphsonProblem(target, issue, maturity, valuation,
                              coupon_decimal, coupons_per_year), LAMBDA g :
    IF g.remaining <= 0
    THEN [raised |-> FALSE, root |-> 0, method |-> "no_flows", width |-> 0]
    ELSE
    With(NewtonRaphsonF(g, 1)[1], LAMBDA fL :
    With(NewtonRaphsonF(g, YieldOne)[1], LAMBDA fH1 :
       IF ~(fL * fH1 > 0)
       THEN NewtonRaphsonSolve(g, y, 1, fL, YieldOne, fH1)
       ELSE
       With(NewtonRaphsonF(g, 2 * YieldOne)[1], LAMBDA fH2 :
       IF ~(fL * fH2 > 0)
       THEN NewtonRaphsonSolve(g, y, 1, fL, 2 * YieldOne, fH2)
       ELSE NewtonRaphsonSolve(g, y, 0, fL, 2 * YieldOne, fH2)))))

-----------------------------------------------------------------------------
(* utils/schedule.py and utils/cashflows.py *)

RECURSIVE CouponDates(_, _, _)
CouponDates(current, maturity, months) ==
    IF current < maturity
    THEN <<current>> \o CouponDates(_add_months(current, months), maturity, months)
    ELSE <<maturity>>

coupon_schedule(issue, maturity, payments_per_year) ==
    LET months == RoundDiv(12, payments_per_year)
    IN CouponDates(_add_months(issue, months), maturity, months)

coupon_cashflows(issue, maturity, coupon_rate, payments_per_year, face) ==
    LET coupon == coupon_amount(face, coupon_rate, payments_per_year)
    IN With(coupon_schedule(issue, maturity, payments_per_year), LAMBDA schedule :
       [i \in 1..Len(schedule) |->
           <<schedule[i], IF i = Len(schedule) THEN coupon + face ELSE coupon>>])

-----------------------------------------------------------------------------
(* bond/utils/rootfinding.py and the function handed to it by              *)
(* bond/ktb/analytics.py.  A callable is a record: kind "ytm_from_price"   *)
(* is the closure func_and_deriv of ytm_from_price, kind "linear" is a     *)
(* caller's own function slope * (x - zero) / LinearStep + offset.         *)

LinearStep == 100

RECURSIVE PowInv(_, _)
PowInv(base, n) ==
    IF n = 0 THEN DiscOne ELSE RoundDiv(PowInv(base, n - 1) * DiscOne, base)

\* base ** (-freq * t) for t = days / 365: the whole power by repeated
\* division, a fractional exponent by the chord to the next whole power
Discount(base, freq, days) ==
    LET whole == (freq * days) \div 365
        part == (freq * days) % 365
        lower_power == PowInv(base, whole)
        upper_power == RoundDiv(lower_power * DiscOne, base)
    IN RoundDiv(lower_power * (365 - part) + upper_power * part, 365)

RECURSIVE FlowSums(_, _, _, _, _, _)
FlowSums(flows, base, freq, settle, price_sum, deriv_sum) ==
    IF flows = <<>> THEN <<price_sum, deriv_sum>>
    ELSE LET dt == Head(flows)[1]
             amount == Head(flows)[2]
             days == Abs(DaysBetween(settle, dt))
             discount == Discount(base, freq, days)
         IN FlowSums(Tail(flows), base, freq, settle,
                     price_sum + amount * discount,
                     deriv_sum - RoundDiv(RoundDiv(amount * discount, base) * days, 365))

ytm_func_and_deriv(fn, y) ==
    LET r == RoundDiv(y, fn.freq * YieldPerDisc)
        base == IF DiscOne + r <= 0 THEN 1 ELSE DiscOne + r
    IN With(FlowSums(fn.future_flows, base, fn.freq, fn.settlement, 0, 0),
            LAMBDA sums : <<RoundDiv(sums[1], DiscOne) - fn.price_dirty, sums[2]>>)

linear_func_and_deriv(fn, x) ==
    <<fn.slope * RoundDiv(x - fn.zero, LinearStep) + fn.offset,
      fn.slope * (YieldOne \div LinearStep)>>

func_and_deriv(fn, x) ==
    IF fn.kind = "ytm_from_price" THEN ytm_func_and_deriv(fn, x)
    ELSE linear_func_and_deriv(fn, x)

func_only(fn, v) == func_and_deriv(fn, v)[1]

RootResult(r, iterations, converged, method, lower, upper) ==
    [raised |-> FALSE, root |-> r, iterations |-> iterations,
     converged |-> converged, method |-> method, width |-> Abs(upper - lower)]

RootFindingError(message) ==
    [raised |-> TRUE, root |-> 0, iterations |-> 0, converged |-> FALSE,
     method |-> message, width |-> 0]

\* Lines 40-48: one round of the for loop.  The state of the loop is the
\* bracket, f(lower), the iteration number and whether line 44 has returned
\* (then with its midpoint); a loop that has returned stays as it is.
BisectRound(fn, s, tol) ==
    IF s.returned THEN s
    ELSE
    With(Mid(s.lower, s.upper), LAMBDA mid :
    With(func_only(fn, mid), LAMBDA f_mid :
       IF Abs(f_mid) <= ValueTol(tol) \/ Abs(s.upper - s.lower) <= tol
       THEN [s EXCEPT !.returned = TRUE, !.mid = mid]
       ELSE IF s.f_lower * f_mid < 0
       THEN [s EXCEPT !.upper = mid, !.iteration = @ + 1]
       ELSE [s EXCEPT !.lower = mid, !.f_lower = f_mid, !.iteration = @ + 1]))

\* n rounds of the loop, as two runs of rounds one after the other
RECURSIVE BisectLoop(_, _, _, _)
BisectLoop(fn, s, tol, n) ==
    IF n = 0 THEN s
    ELSE IF n = 1 THEN BisectRound(fn, s, tol)
    ELSE With(BisectLoop(fn, s, tol, n \div 2),
              LAMBDA t : BisectLoop(fn, t, tol, n - (n \div 2)))

_bisect(fn, lower, upper, tol, max_iter) ==
    With(func_only(fn, lower), LAMBDA f_lower :
    With(func_only(fn, upper), LAMBDA f_upper :
       IF f_lower = 0 THEN RootResult(lower, 0, TRUE, "bisect", lower, lower)
       ELSE IF f_upper = 0 THEN RootResult(upper, 0, TRUE, "bisect", upper, upper)
       ELSE IF (f_lower > 0) = (f_upper > 0)
       THEN RootFindingError("Bisection requires a sign change in the bracket")
       ELSE
       With(BisectLoop(fn, [lower |-> lower, f_lower |-> f_lower, upper |-> upper,
                            iteration |-> 1, returned |-> FALSE, mid |-> lower],
                       tol, max_iter),
            LAMBDA s :
            IF s.returned
            THEN RootResult(s.mid, s.iteration, TRUE, "bisect", s.lower, s.upper)
            ELSE RootFindingError("Bisection failed to converge"))))

\* expansion is 1.8: a distance grows by its four fifths
Expand(distance) == distance + RoundDiv(distance * 4, 5)

\* [raised, a, b]
RECURSIVE _find_bracket(_, _, _, _, _)
_find_bracket(fn, guess, a, b, attempts_left) ==
    With(func_only(fn, a), LAMBDA f_a :
    With(func_only(fn, b), LAMBDA f_b :
       IF attempts_left = 0 THEN [raised |-> TRUE, a |-> a, b |-> b]
       ELSE IF f_a = 0 THEN [raised |-> FALSE, a |-> a, b |-> a]
       ELSE IF f_b = 0 THEN [raised |-> FALSE, a |-> b, b |-> b]
       ELSE IF (f_a > 0) # (f_b > 0) THEN [raised |-> FALSE, a |-> a, b |-> b]
       ELSE _find_bracket(fn, guess, guess - Expand(guess - a),
                          guess + Expand(b - guess), attempts_left - 1)))

FindBracketAttempts == 12

\* Lines 114-119: the clamped step, and the next iterate held in the bracket
NewtonStep(x, value, deriv, clamp, lower, upper) ==
    LET raw_step == StepOf(value, deriv)
        step == IF Abs(raw_step) > clamp
                THEN (IF raw_step > 0 THEN clamp ELSE -clamp)
                ELSE raw_step
    IN Max(lower, Min(upper, x - step))

\* Lines 107-122: one round of the for loop.  The state of the loop is the
\* iterate x, the iteration number, whether a round has returned (then with
\* its result) and whether line 113 has left the loop; a loop that has
\* returned or been left stays as it is.
NewtonRound(fn, s, tol_value, tol_step, clamp, lower, upper) ==
    IF s.returned \/ s.broke THEN s
    ELSE
    With(func_and_deriv(fn, s.x), LAMBDA vd :
    LET value == vd[1]
        deriv == vd[2]
    IN IF Abs(value) <= ValueTol(tol_value)
       THEN [s EXCEPT !.returned = TRUE,
                      !.result = RootResult(s.x, s.iteration, TRUE, "newton",
                                            s.x, s.x)]
       ELSE IF deriv = 0 THEN [s EXCEPT !.broke = TRUE]
       ELSE
       With(NewtonStep(s.x, value, deriv, clamp, lower, upper), LAMBDA x_new :
       IF Abs(x_new - s.x) <= tol_step
       THEN [s EXCEPT !.returned = TRUE,
                      !.result = RootResult(x_new, s.iteration, TRUE, "newton",
                                            s.x, x_new)]
       ELSE [s EXCEPT !.x = x_new, !.iteration = @ + 1]))

\* n rounds of the loop, as two runs of rounds one after the other
RECURSIVE NewtonLoop(_, _, _, _, _, _, _, _)
NewtonLoop(fn, s, tol_value, tol_step, clamp, lower, upper, n) ==
    IF n = 0 THEN s
    ELSE IF n = 1 THEN NewtonRound(fn, s, tol_value, tol_step, clamp, lower, upper)
    ELSE With(NewtonLoop(fn, s, tol_value, tol_step, clamp, lower, upper,
                         n \div 2),
              LAMBDA t : NewtonLoop(fn, t, tol_value, tol_step, clamp, lower,
                                    upper, n - (n \div 2)))

DefaultLower == -20000
DefaultUpper == 300000

\* brk is [given, lower, upper]: bracket=None is given = FALSE
newton_with_bisect(fn, initial_guess, tol_value, tol_step, max_iter, clamp, brk) ==
    LET lower == IF brk.given THEN brk.lower ELSE DefaultLower
        upper == IF brk.given THEN brk.upper ELSE DefaultUpper
    IN
    With(NewtonLoop(fn, [x |-> initial_guess, iteration |-> 1, returned |-> FALSE,
                         broke |-> FALSE, result |-> NoResult],
                    tol_value, tol_step, clamp, lower, upper, max_iter),
         LAMBDA newton :
    IF newton.returned THEN newton.result
    ELSE
    With(IF brk.given THEN [raised |-> TRUE, a |-> lower, b |-> upper]
         ELSE _find_bracket(fn, newton.x, lower, upper, FindBracketAttempts),
         LAMBDA found :
    With(_bisect(fn, IF found.raised THEN lower ELSE found.a,
                 IF found.raised THEN upper ELSE found.b, tol_value, 100),
         LAMBDA result :
    IF result.raised THEN result
    ELSE [result EXCEPT !.converged = TRUE, !.method = "bisect"])))

-----------------------------------------------------------------------------
(* bond/ktb/analytics.py *)

_resolve_settlement(valuation, issue, maturity) ==
    IF valuation < issue THEN issue
    ELSE IF valuation > maturity THEN maturity
    ELSE valuation

\* tolerances and clamp of ytm_from_price in units of 1/YieldOne; tol_step is
\* 1e-10
YtmTolValue == 1
YtmTolStep == 0
YtmMaxIter == 50
YtmClamp == 10000
YtmSeed == 20000

\* _VALUATION_DATE is the argument valuation; face is 10 000 and guess is None
ytm_from_price(valuation, issue, maturity, coupon, payment_frequency, price_dirty) ==
    LET settle == _resolve_settlement(valuation, issue, maturity)
        initial == Max(coupon * (YieldOne \div 10000), YtmSeed)
    IN
    With(coupon_cashflows(issue, maturity, coupon, payment_frequency, 10000),
         LAMBDA flows :
    With(FlowsAfter(flows, settle), LAMBDA future_flows :
       IF flows = <<>> \/ settle >= flows[Len(flows)][1] \/ future_flows = <<>>
       THEN RootResult(0, 0, FALSE, "no_flows", 0, 0)
       ELSE newton_with_bisect([kind |-> "ytm_from_price",
                                future_flows |-> future_flows,
                                settlement |-> settle,
                                freq |-> payment_frequency,
                                price_dirty |-> price_dirty],
                               initial, YtmTolValue, YtmTolStep, YtmMaxIter,
                               YtmClamp,
                               [given |-> TRUE, lower |-> DefaultLower,
                                upper |-> DefaultUpper])))

\* the dirty price (as_clean = False); base is positive for the yields priced
price_from_ytm(valuation, issue, maturity, coupon, payment_frequency, yield) ==
    LET settle == _resolve_settlement(valuation, issue, maturity)
        flows == coupon_cashflows(issue, maturity, coupon, payment_frequency, 10000)
        base == DiscOne + RoundDiv(yield, payment_frequency * YieldPerDisc)
        sums == FlowSums(FlowsAfter(flows, settle), base, payment_frequency,
                         settle, 0, 0)
    IN IF settle >= maturity THEN 0 ELSE RoundDiv(sums[1], DiscOne)

-----------------------------------------------------------------------------
(* YTM solver calls: the call and its arguments are drawn in Init *)

\* the largest coupon of a bond, in basis points
MaxCoupon == 450

Bonds ==
    {[issue |-> i, maturity |-> m, coupon |-> c, payments_per_year |-> 2] :
        i \in {MkDate(FirstYear - 1, 1, 15), MkDate(FirstYear - 1, 8, 31)},
        m \in {MkDate(FirstYear, 8, 31), MkDate(FirstYear + 1, 1, 15)},
        c \in {200, MaxCoupon}}

Settlements == {MkDate(FirstYear, 1, 15), MkDate(FirstYear, 3, 1)}

\* yields whose prices are quoted to the solvers
QuotedYields == {15000, 32500}

\* prices away from the quoted yields: 7000 is below the price at the upper
\* bound of newton_with_bisect's bracket, 11500 is above the price at zero yield
FarPrices == {7000, 11500}

YtmPrices(b, s) ==
    {price_from_ytm(s, b.issue, b.maturity, b.coupon, b.payments_per_year, y) :
        y \in QuotedYields} \cup FarPrices

NewtonRaphsonPrices(b, s) ==
    {NewtonRaphsonF(NewtonRaphsonProblem(0, b.issue, b.maturity, s, b.coupon,
                                         b.payments_per_year), y)[1] :
        y \in QuotedYields} \cup FarPrices

\* callers' own functions and arguments for newton_with_bisect
NewtonCalls ==
    {[fn |-> [kind |-> "linear", slope |-> sl, zero |-> z, offset |-> o],
      initial_guess |-> 20000,
      tol_value |-> 1, tol_step |-> 0, max_iter |-> mi, clamp |-> 10000,
      bracket |-> br] :
        sl \in {-1, 0, 1},
        z \in {-50000, 25037, 60000, 500000},
        o \in {0, 3},
        mi \in {3, 50},
        br \in {[given |-> FALSE, lower |-> 0, upper |-> 0],
                [given |-> TRUE, lower |-> 0, upper |-> 100000]}}

InitYtm ==
    /\ SchedIdle /\ PriceIdle /\ BisectIdle /\ BootIdle /\ IborIdle /\ CallIdle
    /\ ytm = NoResult
    /\ \/ /\ pc = "call_newton_with_bisect"
          /\ func \in NewtonCalls
          /\ bond = NoBond /\ settlement = NoDate /\ price = 0
       \/ /\ pc = "call_ytm_from_price"
          /\ func = NoFunc
          /\ bond \in Bonds
          /\ settlement \in Settlements
          /\ price \in YtmPrices(bond, settlement)
       \/ /\ pc = "call_ytm_by_price_newton_raphson"
          /\ func = NoFunc
          /\ bond \in Bonds
          /\ settlement \in Settlements
          /\ price \in NewtonRaphsonPrices(bond, settlement)

NewtonWithBisect ==
    /\ pc = "call_newton_with_bisect"
    /\ ytm' = newton_with_bisect(func.fn, func.initial_guess, func.tol_value,
                                 func.tol_step, func.max_iter, func.clamp,
                                 func.bracket)
    /\ pc' = "newton_with_bisect"
    /\ UNCHANGED <<bond, settlement, price, func, notYtm>>

YtmFromPrice ==
    /\ pc = "call_ytm_from_price"
    /\ ytm' = ytm_from_price(settlement, bond.issue, bond.maturity, bond.coupon,
                             bond.payments_per_year, price)
    /\ pc' = "ytm_from_price"
    /\ UNCHANGED <<bond, settlement, price, func, notYtm>>

YtmByPriceNewtonRaphson ==
    /\ pc = "call_ytm_by_price_newton_raphson"
    /\ ytm' = ytm_by_price_newton_raphson(price, bond.issue, bond.maturity,
                                          settlement, bond.coupon,
                                          bond.payments_per_year)
    /\ pc' = "ytm_by_price_newton_raphson"
    /\ UNCHANGED <<bond, settlement, price, func, notYtm>>

NextYtm == NewtonWithBisect \/ YtmFromPrice \/ YtmByPriceNewtonRaphson

SpecYtm == InitYtm /\ [][NextYtm]_vars

-----------------------------------------------------------------------------
(* Claims about the YTM solvers *)

\* the function the finished call solved, and its tolerances
SolvedFn ==
    IF pc = "newton_with_bisect" THEN func.fn
    ELSE [kind |-> "ytm_from_price",
          future_flows |->
              FlowsAfter(coupon_cashflows(bond.issue, bond.maturity, bond.coupon,
                                          bond.payments_per_year, 10000),
                         _resolve_settlement(settlement, bond.issue, bond.maturity)),
          settlement |-> _resolve_settlement(settlement, bond.issue, bond.maturity),
          freq |-> bond.payments_per_year,
          price_dirty |-> price]

\* the criteria of newton_with_bisect at the returned root: the value is
\* within tol_value, or the clamped Newton step taken there and held in the
\* bracket moves by no more than tol_step, or the bisection bracket is
\* within tol_value
NewtonCriteriaMet(fn, r, tol_value, tol_step, clamp, lower, upper) ==
    LET vd == func_and_deriv(fn, r.root)
        x_new == NewtonStep(r.root, vd[1], vd[2], clamp, lower, upper)
    IN \/ Abs(vd[1]) <= ValueTol(tol_value)
       \/ vd[2] # 0 /\ Abs(x_new - r.root) <= tol_step
       \/ r.method = "bisect" /\ r.width <= tol_value

\* the bracket newton_with_bisect iterates in
BracketOf(brk) ==
    IF brk.given THEN brk ELSE [brk EXCEPT !.lower = DefaultLower,
                                           !.upper = DefaultUpper]

\* the criterion of ytm_by_price_newton_raphson at the returned yield
NewtonRaphsonCriterionMet(r) ==
    Abs(NewtonRaphsonF(NewtonRaphsonProblem(price, bond.issue, bond.maturity,
                                            settlement, bond.coupon,
                                            bond.payments_per_year),
                       r.root)[1]) < NewtonRaphsonTol

\* C5: a YTM solver entry point (newton_with_bisect, ytm_from_price,
\* ytm_by_price_newton_raphson) that returns a yield has met its convergence
\* criteria at that yield; otherwise it raises.
C5_ReturnsOnlyConverged ==
    /\ (pc = "newton_with_bisect" /\ ~ytm.raised)
          => NewtonCriteriaMet(func.fn, ytm, func.tol_value, func.tol_step,
                               func.clamp, BracketOf(func.bracket).lower,
                               BracketOf(func.bracket).upper)
    /\ (pc = "ytm_from_price" /\ ~ytm.raised)
          => NewtonCriteriaMet(SolvedFn, ytm, YtmTolValue, YtmTolStep, YtmClamp,
                               DefaultLower, DefaultUpper)
    /\ (pc = "ytm_by_price_newton_raphson" /\ ~ytm.raised)
          => NewtonRaphsonCriterionMet(ytm)

-----------------------------------------------------------------------------
(* swap/curves/ibor/bootstrap/engine.py and                                *)
(* swap/curves/ois/bootstrap_engine.py: the bisections of the bootstraps   *)
(*                                                                         *)
(* A bracket lies in one binade [2^e, 2^(e+1)) of the floats and its ends  *)
(* are counted in spacings of that binade, so every float of the bracket   *)
(* is an integer and 0.5 * (lower + upper) is Mid.  A residual is counted  *)
(* in units of the tolerance of the bisection that reads it.  A callable   *)
(* of kind "lattice" is slope * (2 x - zero2): its zero is on a float when *)
(* zero2 is even and between two floats when zero2 is odd.                 *)

RECURSIVE Pow2(_)
Pow2(e) == IF e = 0 THEN 1 ELSE 2 * Pow2(e - 1)

\* 1e-14 and 1e-12 in ten-thousandths of the spacing 2^-52 of the floats of
\* [1, 2)
IborTolAtOne == 450360
OisTolAtOne == 45035997

\* the least number of spacings of binade e that is not below the tolerance:
\* abs(upper - lower) < tolerance is upper - lower < WidthTol
WidthTol(tol_at_one, e) ==
    (tol_at_one + 10000 * Pow2(e) - 1) \div (10000 * Pow2(e))

lattice_residual(res, x) == res.slope * (2 * x - res.zero2)

IborBisectIterations == 100

\* Lines 271-282: one round of the for loop.  The state of the loop is the
\* bracket, residual(lower) and whether line 276 has returned (then with
\* its midpoint); a loop that has returned stays as it is.
IborBisectRound(res, s, e) ==
    IF s.returned THEN s
    ELSE
    With(Mid(s.lower, s.upper), LAMBDA mid :
    With(lattice_residual(res, mid), LAMBDA res_mid :
       IF Abs(res_mid) < 1 \/ Abs(s.upper - s.lower) < WidthTol(IborTolAtOne, e)
       THEN [s EXCEPT !.returned = TRUE, !.mid = mid]
       ELSE IF s.res_lower * res_mid <= 0
       THEN [s EXCEPT !.upper = mid]
       ELSE [s EXCEPT !.lower = mid, !.res_lower = res_mid]))

\* n rounds of the loop, as two runs of rounds one after the other
RECURSIVE IborBisectLoop(_, _, _, _)
IborBisectLoop(res, s, e, n) ==
    IF n = 0 THEN s
    ELSE IF n = 1 THEN IborBisectRound(res, s, e)
    ELSE With(IborBisectLoop(res, s, e, n \div 2),
              LAMBDA t : IborBisectLoop(res, t, e, n - (n \div 2)))

\* the float returned, with the bracket it was returned from; line 284
\* returns the midpoint of the last bracket
_bisect_solution(res, lower, upper, e) ==
    With(IborBisectLoop(res, [lower |-> lower, upper |-> upper,
                              res_lower |-> lattice_residual(res, lower),
                              returned |-> FALSE, mid |-> lower],
                        e, IborBisectIterations),
         LAMBDA s :
         [raised |-> FALSE,
          root |-> IF s.returned THEN s.mid ELSE Mid(s.lower, s.upper),
          method |-> IF s.returned THEN "tolerance" ELSE "last_midpoint",
          width |-> Abs(s.upper - s.lower)])

OisBisectIterations == 100

\* Lines 439-451: one round of the for loop, with the state of
\* IborBisectRound
OisBisectRound(res, s, e) ==
    IF s.returned THEN s
    ELSE
    With(Mid(s.lower, s.upper), LAMBDA mid :
    With(lattice_residual(res, mid), LAMBDA res_mid :
       IF Abs(res_mid) < 1 \/ Abs(s.upper - s.lower) < WidthTol(OisTolAtOne, e)
       THEN [s EXCEPT !.returned = TRUE, !.mid = mid]
       ELSE IF s.res_lower * res_mid <= 0
       THEN [s EXCEPT !.upper = mid]
       ELSE [s EXCEPT !.lower = mid, !.res_lower = res_mid]))

\* n rounds of the loop, as two runs of rounds one after the other
RECURSIVE OisBisectLoop(_, _, _, _)
OisBisectLoop(res, s, e, n) ==
    IF n = 0 THEN s
    ELSE IF n = 1 THEN OisBisectRound(res, s, e)
    ELSE With(OisBisectLoop(res, s, e, n \div 2),
              LAMBDA t : OisBisectLoop(res, t, e, n - (n \div 2)))

\* the float returned, with the bracket it was returned from; line 453
\* returns the midpoint of the last bracket
_bisect_ois_solution(res, lower, upper, e) ==
    With(OisBisectLoop(res, [lower |-> lower, upper |-> upper,
                             res_lower |-> lattice_residual(res, lower),
                             returned |-> FALSE, mid |-> lower],
                       e, OisBisectIterations),
         LAMBDA s :
         [raised |-> FALSE,
          root |-> IF s.returned THEN s.mid ELSE Mid(s.lower, s.upper),
          method |-> IF s.returned THEN "tolerance" ELSE "last_midpoint",
          width |-> Abs(s.upper - s.lower)])

-----------------------------------------------------------------------------
(* Bisection calls: the call and its arguments are drawn in Init *)

\* the widest bracket of a bootstrap bisection, in spacings
MaxBracketWidth == 4096

\* brackets of the bootstraps: e is the binade of the floats of the bracket
\* (near 1, and the first binade whose spacing is above the tolerance)
LatticeBrackets(binades) ==
    {[lower |-> l, upper |-> l + w, e |-> e, tol |-> 0, max_iter |-> 0] :
        l \in {0, 3}, w \in {16, MaxBracketWidth}, e \in binades}

\* residuals with a sign change in the bracket: the zero is on a float or
\* between two floats
LatticeResiduals(b) ==
    {[kind |-> "lattice", slope |-> sl, zero2 |-> z] :
        sl \in {-1, 1},
        z \in {2 * b.lower + 13, 2 * b.lower + 14, 2 * b.upper - 7, 2 * b.upper - 8}}

\* brackets and callables handed to rootfinding._bisect
BisectBrackets ==
    {[lower |-> l, upper |-> u, e |-> 0, tol |-> 1, max_iter |-> mi] :
        l \in {-20000, 0}, u \in {100000, 300000}, mi \in {3, 100}}

BisectResiduals ==
    {[kind |-> "linear", slope |-> sl, zero |-> z, offset |-> o] :
        sl \in {-1, 1}, z \in {25037, 60000, 500000}, o \in {0, 3}}

InitBisect ==
    /\ SchedIdle /\ PriceIdle /\ YtmIdle /\ BootIdle /\ IborIdle /\ CallIdle
    /\ root = NoResult
    /\ \/ /\ pc = "call__bisect"
          /\ bracket \in BisectBrackets
          /\ residual \in BisectResiduals
       \/ /\ pc = "call__bisect_solution"
          /\ bracket \in LatticeBrackets({0, 6})
          /\ residual \in LatticeResiduals(bracket)
       \/ /\ pc = "call__bisect_ois_solution"
          /\ bracket \in LatticeBrackets({0, 13})
          /\ residual \in LatticeResiduals(bracket)

Bisect ==
    /\ pc = "call__bisect"
    /\ root' = _bisect(residual, bracket.lower, bracket.upper, bracket.tol,
                       bracket.max_iter)
    /\ pc' = "_bisect"
    /\ UNCHANGED <<residual, bracket, notBisect>>

BisectSolution ==
    /\ pc = "call__bisect_solution"
    /\ root' = _bisect_solution(residual, bracket.lower, bracket.upper, bracket.e)
    /\ pc' = "_bisect_solution"
    /\ UNCHANGED <<residual, bracket, notBisect>>

BisectOisSolution ==
    /\ pc = "call__bisect_ois_solution"
    /\ root' = _bisect_ois_solution(residual, bracket.lower, bracket.upper,
                                    bracket.e)
    /\ pc' = "_bisect_ois_solution"
    /\ UNCHANGED <<residual, bracket, notBisect>>

NextBisect == Bisect \/ BisectSolution \/ BisectOisSolution

SpecBisect == InitBisect /\ [][NextBisect]_vars

-----------------------------------------------------------------------------
(* Claims about the bisections *)

\* the tolerance of the bisection that has returned: the residual at the
\* returned root or the width of the bracket it was returned from
ToleranceMet ==
    CASE pc = "_bisect" ->
            \/ Abs(func_only(residual, root.root)) <= ValueTol(bracket.tol)
            \/ root.width <= bracket.tol
      [] pc = "_bisect_solution" ->
            \/ Abs(lattice_residual(residual, root.root)) < 1
            \/ root.width < WidthTol(IborTolAtOne, bracket.e)
      [] pc = "_bisect_ois_solution" ->
            \/ Abs(lattice_residual(residual, root.root)) < 1
            \/ root.width < WidthTol(OisTolAtOne, bracket.e)

\* C6: a root finder (rootfinding._bisect, the IBOR _bisect_solution, the OIS
\* _bisect_ois_solution) that returns a root has met its tolerance; when its
\* iterations are used up without that it raises instead of returning the last
\* midpoint.
C6_ExhaustedBisectionRaises ==
    (pc \in {"_bisect", "_bisect_solution", "_bisect_ois_solution"} /\ ~root.raised)
        => ToleranceMet

-----------------------------------------------------------------------------
(* ktb/legacy_curve/zero_from_bonds.py: bootstrap_dfs_from_bonds           *)
(*                                                                         *)
(* Discount factors and their logarithms are integers in units of          *)
(* 1/DiscOne; an amount times a discount factor, and so the residual f, is *)
(* in units of 1/DiscOne of a currency unit.  The discount factor 0 stands *)
(* for the floats below half a unit, down to the lower end 1e-10 of the    *)
(* bracket; its logarithm is that of 1e-10.                                *)

\* math.log(2) and math.log(1e-10) in units of 1/DiscOne
Ln2 == 6931
LnLo == -230259

\* math.log(x / DiscOne) for 0 <= x <= DiscOne: x is doubled into the upper
\* half of (0, DiscOne], where the logarithm is
\* 2 (z + z^3/3 + z^5/5 + z^7/7), z = (x - DiscOne) / (x + DiscOne)
RECURSIVE Ln(_)
Ln(x) ==
    IF x = 0 THEN LnLo
    ELSE IF 2 * x <= DiscOne THEN Ln(2 * x) - Ln2
    ELSE LET z == RoundDiv((x - DiscOne) * DiscOne, x + DiscOne)
             z2 == RoundDiv(z * z, DiscOne)
             z3 == RoundDiv(z * z2, DiscOne)
             z5 == RoundDiv(z3 * z2, DiscOne)
             z7 == RoundDiv(z5 * z2, DiscOne)
         IN 2 * (z + RoundDiv(z3, 3) + RoundDiv(z5, 5) + RoundDiv(z7, 7))

\* the halvings after which no discount factor is left on the grid
MaxHalvings == 15

\* math.exp(v / DiscOne) for v <= 0: v = r - k Ln2 with -Ln2 < r <= 0, the
\* exponential of r by its series to the fifth power, halved k times
Exp(v) ==
    LET k == (-v) \div Ln2
        r == v + k * Ln2
        t5 == DiscOne + RoundDiv(r, 5)
        t4 == DiscOne + RoundDiv(r * t5, 4 * DiscOne)
        t3 == DiscOne + RoundDiv(r * t4, 3 * DiscOne)
        t2 == DiscOne + RoundDiv(r * t3, 2 * DiscOne)
        e == DiscOne + RoundDiv(r * t2, DiscOne)
    IN IF k >= MaxHalvings THEN 0 ELSE RoundDiv(e, Pow2(k))

\* x ** (num / den) for a discount factor x and 0 <= num <= den
PowFrac(x, num, den) == Exp(RoundDiv(Ln(x) * num, den))

\* a * b / c for a, b >= 0, without the product a * b
MulDiv(a, b, c) == (a \div c) * b + RoundDiv((a % c) * b, c)

Sgn(x) == IF x < 0 THEN -1 ELSE IF x > 0 THEN 1 ELSE 0

\* sorted(df_by_date.keys())
RECURSIVE SortedDates(_)
SortedDates(dates) ==
    IF dates = {} THEN <<>>
    ELSE LET first == CHOOSE d \in dates : \A e \in dates : d <= e
         IN <<first>> \o SortedDates(dates \ {first})

bisect_left(known, dt) == Cardinality({i \in 1..Len(known) : known[i] < dt})

\* dfs[d] = v
SetItem(dfs, d, v) == [k \in DOMAIN dfs \cup {d} |-> IF k = d THEN v ELSE dfs[k]]

CouponTermMonths == 6
FaceValue == 10000

\* Lines 28-34: the items of the bonds that have a flow after the valuation
\* date, in the order of the bonds
RECURSIVE Items(_, _)
Items(bs, as_of) ==
    IF bs = <<>> THEN <<>>
    ELSE With(FlowsAfter(cash_flows(KTB(Head(bs).issue, Head(bs).maturity,
                                        Head(bs).coupon, CouponTermMonths,
                                        FaceValue)), as_of),
              LAMBDA flows :
              (IF flows = <<>> THEN <<>>
               ELSE <<[last_day |-> DaysBetween(as_of, flows[Len(flows)][1]),
                       bond |-> Head(bs), flows |-> flows]>>)
              \o Items(Tail(bs), as_of))

\* Line 36: list.sort is stable
RECURSIVE InsertByLastDay(_, _)
InsertByLastDay(sorted, item) ==
    IF sorted = <<>> THEN <<item>>
    ELSE IF item.last_day < Head(sorted).last_day THEN <<item>> \o sorted
    ELSE <<Head(sorted)>> \o InsertByLastDay(Tail(sorted), item)

RECURSIVE SortByLastDay(_)
SortByLastDay(items) ==
    IF items = <<>> THEN <<>>
    ELSE InsertByLastDay(SortByLastDay(SubSeq(items, 1, Len(items) - 1)),
                         items[Len(items)])

\* Lines 57-82: one round of the loop over flows[:-1].  t is known_ok,
\* const_pv, coeffs and the dates whose discount factor has been read; after
\* the break of a round the rounds that follow leave t as it is.
FlowRound(t, dt, amt, dfs, known, D_T) ==
    IF ~t.known_ok THEN t
    ELSE IF dt \in DOMAIN dfs
    THEN [t EXCEPT !.const_pv = @ + amt * dfs[dt], !.reads = @ \cup {dt}]
    ELSE IF DOMAIN dfs = {} THEN [t EXCEPT !.known_ok = FALSE]
    ELSE
    With(bisect_left(known, dt), LAMBDA pos :
    IF pos = 0 THEN [t EXCEPT !.known_ok = FALSE]
    ELSE
    With(known[pos], LAMBDA d_lo :
    With(dfs[d_lo], LAMBDA df_lo :
    IF pos < Len(known)
    THEN With(known[pos + 1], LAMBDA d_hi :
         With(Ln(df_lo) + RoundDiv(DaysBetween(d_lo, dt) * (Ln(dfs[d_hi]) - Ln(df_lo)),
                                   DaysBetween(d_lo, d_hi)),
              LAMBDA ln_df :
              [t EXCEPT !.const_pv = @ + amt * Exp(ln_df),
                        !.reads = @ \cup {d_lo, d_hi}]))
    ELSE IF dt >= D_T
    THEN [t EXCEPT !.known_ok = FALSE, !.reads = @ \cup {d_lo}]
    ELSE [t EXCEPT
            !.coeffs = Append(@, [K |-> amt * PowFrac(df_lo, DaysBetween(dt, D_T),
                                                      DaysBetween(d_lo, D_T)),
                                  num |-> DaysBetween(d_lo, dt),
                                  den |-> DaysBetween(d_lo, D_T)]),
            !.reads = @ \cup {d_lo}])))

\* Lines 53-82: the rounds from flow i on, over flows[:-1]
RECURSIVE FlowRounds(_, _, _, _, _, _)
FlowRounds(t, flows, i, dfs, known, D_T) ==
    IF i >= Len(flows) THEN t
    ELSE With(FlowRound(t, flows[i][1], flows[i][2], dfs, known, D_T),
              LAMBDA u : FlowRounds(u, flows, i + 1, dfs, known, D_T))

\* Lines 90-94: the closure f; p holds const_pv, last_amt, coeffs and dirty
RECURSIVE CoeffSum(_, _, _)
CoeffSum(coeffs, df_t, i) ==
    IF i > Len(coeffs) THEN 0
    ELSE MulDiv(coeffs[i].K, PowFrac(df_t, coeffs[i].num, coeffs[i].den), DiscOne)
         + CoeffSum(coeffs, df_t, i + 1)

f(p, df_t) ==
    p.const_pv + p.last_amt * df_t + CoeffSum(p.coeffs, df_t, 1) - p.dirty * DiscOne

BootBisectIterations == 80

\* Lines 104-112: one round of the for loop; 1e-10 is below a unit of f.  The
\* sign of f_lo * fm is taken from the signs of its factors.
BootBisectRound(p, s) ==
    IF s.broke THEN s
    ELSE
    With(Mid(s.lo, s.hi), LAMBDA mid :
    With(f(p, mid), LAMBDA fm :
       IF Abs(fm) < 1 THEN [s EXCEPT !.df_t_star = mid, !.broke = TRUE]
       ELSE IF Sgn(s.f_lo) * Sgn(fm) <= 0 THEN [s EXCEPT !.hi = mid, !.f_hi = fm]
       ELSE [s EXCEPT !.lo = mid, !.f_lo = fm]))

\* n rounds of the loop, as two runs of rounds one after the other
RECURSIVE BootBisectLoop(_, _, _)
BootBisectLoop(p, s, n) ==
    IF n = 0 THEN s
    ELSE IF n = 1 THEN BootBisectRound(p, s)
    ELSE With(BootBisectLoop(p, s, n \div 2),
              LAMBDA t : BootBisectLoop(p, t, n - (n \div 2)))

\* Lines 96-114: df_t_star, with f at the two ends of the bracket
SolveDf(p) ==
    With(f(p, 0), LAMBDA f_lo :
    With(f(p, DiscOne), LAMBDA f_hi :
       IF f_lo > 0 /\ f_hi > 0
       THEN [df_t_star |-> 0, f_lo |-> f_lo, f_hi |-> f_hi]
       ELSE IF f_lo < 0 /\ f_hi < 0
       THEN [df_t_star |-> DiscOne, f_lo |-> f_lo, f_hi |-> f_hi]
       ELSE With(BootBisectLoop(p, [lo |-> 0, f_lo |-> f_lo, hi |-> DiscOne,
                                    f_hi |-> f_hi, df_t_star |-> 0, broke |-> FALSE],
                                BootBisectIterations),
                 LAMBDA s :
                 [df_t_star |-> IF s.broke THEN s.df_t_star ELSE Mid(s.lo, s.hi),
                  f_lo |-> f_lo, f_hi |-> f_hi])))

\* Lines 47-117: one round of the for loop of a pass on the item popped:
\* whether the bond is solved (known_ok) and, when it is, the date and the
\* discount factor stored, the dates read and f at the ends of the bracket
ProcessItem(item, dfs) ==
    With(item.flows[Len(item.flows)], LAMBDA last :
    With(FlowRounds([known_ok |-> TRUE, const_pv |-> 0, coeffs |-> <<>>, reads |-> {}],
                    item.flows, 1, dfs, SortedDates(DOMAIN dfs), last[1]),
         LAMBDA t :
         IF ~t.known_ok THEN [known_ok |-> FALSE]
         ELSE With(SolveDf([const_pv |-> t.const_pv, last_amt |-> last[2],
                            coeffs |-> t.coeffs, dirty |-> item.bond.dirty]),
                   LAMBDA r :
                   [known_ok |-> TRUE, D_T |-> last[1],
                    df |-> Max(Min(r.df_t_star, DiscOne), 0),
                    reads |-> t.reads, f_lo |-> r.f_lo, f_hi |-> r.f_hi])))

\* Lines 123-133: the nodes in date order; years_from_valuation is held in days
DiscountFactorNodes(dfs, as_of) ==
    With(SortedDates(DOMAIN dfs), LAMBDA dates_sorted :
         [i \in 1..Len(dates_sorted) |->
             [date |-> dates_sorted[i], discount_factor |-> dfs[dates_sorted[i]],
              days_from_valuation |-> DaysBetween(as_of, dates_sorted[i])]])

RECURSIVE Pending(_)
Pending(items) ==
    IF items = <<>> THEN <<>>
    ELSE <<<<Head(items).bond.issue, Head(items).bond.maturity>>>> \o Pending(Tail(items))

-----------------------------------------------------------------------------
(* Calls of bootstrap_dfs_from_bonds: the bonds are drawn in Init and the  *)
(* steps are the build of the queue, the start of a pass, each round of    *)
(* the for loop of a pass and the end after the while loop                 *)

MaxBonds == 3

BootValuation == MkDate(2024, 1, 15)

\* quotes: a bond with one flow left, bonds with two flows left (two of
\* them with the same maturity, one with a coupon before every maturity), a
\* bond with no flow left; dirty prices inside and outside what the flows
\* can be worth
BondQuotes ==
    {[issue |-> MkDate(2023, 9, 1), maturity |-> MkDate(2024, 3, 1), coupon |-> 300, dirty |-> 10100],
     [issue |-> MkDate(2023, 9, 1), maturity |-> MkDate(2024, 3, 1), coupon |-> 300, dirty |-> 10400],
     [issue |-> MkDate(2023, 10, 5), maturity |-> MkDate(2024, 10, 5), coupon |-> 200, dirty |-> 9900],
     [issue |-> MkDate(2023, 6, 10), maturity |-> MkDate(2024, 12, 10), coupon |-> 300, dirty |-> 10000],
     [issue |-> MkDate(2021, 12, 10), maturity |-> MkDate(2024, 12, 10), coupon |-> 450, dirty |-> 100],
     [issue |-> MkDate(2021, 12, 10), maturity |-> MkDate(2024, 12, 10), coupon |-> 450, dirty |-> 10300],
     [issue |-> MkDate(2023, 8, 10), maturity |-> MkDate(2024, 8, 10), coupon |-> 300, dirty |-> 10050],
     [issue |-> MkDate(2023, 1, 1), maturity |-> MkDate(2024, 1, 1), coupon |-> 300, dirty |-> 10000]}

BondLists == UNION {[1..n -> BondQuotes] : n \in 1..MaxBonds}

InitBoot ==
    /\ SchedIdle /\ YtmIdle /\ BisectIdle /\ IborIdle /\ CallIdle
    /\ spec = NoSpec /\ curves = NoCurves /\ swap_pv = NoSwapPV
    /\ pc = "call_bootstrap_dfs_from_bonds"
    /\ bonds \in BondLists
    /\ valuation_date = BootValuation
    /\ q = <<>>
    /\ df_by_date = <<>>
    /\ progressed = FALSE
    /\ pass_left = 0
    /\ nodes = NoNodes
    /\ solve_log = <<>>

\* Lines 28-43
BuildQueue ==
    /\ pc = "call_bootstrap_dfs_from_bonds"
    /\ q' = SortByLastDay(Items(bonds, valuation_date))
    /\ df_by_date' = <<>>
    /\ progressed' = TRUE
    /\ pc' = "while"
    /\ UNCHANGED <<bonds, pass_left, nodes, solve_log, notBoot>>

\* Lines 44-46: the while condition holds
BeginPass ==
    /\ pc = "while"
    /\ q # <<>> /\ progressed
    /\ progressed' = FALSE
    /\ pass_left' = Len(q)
    /\ pc' = "for"
    /\ UNCHANGED <<bonds, q, df_by_date, nodes, solve_log, notBoot>>

\* Lines 47-117: one round of the for loop; after the last round of the pass
\* the while condition is next
BondRound ==
    /\ pc = "for"
    /\ \E r \in {ProcessItem(Head(q), df_by_date)} :
          IF ~r.known_ok
          THEN /\ q' = Append(Tail(q), Head(q))
               /\ UNCHANGED <<df_by_date, progressed, solve_log>>
          ELSE /\ q' = Tail(q)
               /\ df_by_date' = SetItem(df_by_date, r.D_T, r.df)
               /\ progressed' = TRUE
               /\ solve_log' = Append(solve_log, r)
    /\ pass_left' = pass_left - 1
    /\ pc' = IF pass_left = 1 THEN "while" ELSE "for"
    /\ UNCHANGED <<bonds, nodes, notBoot>>

\* the end without the raise of lines 119-121
EndBootstrapReturning ==
    /\ pc = "while"
    /\ ~(q # <<>> /\ progressed)
    /\ nodes' = [raised |-> FALSE,
                 nodes |-> DiscountFactorNodes(df_by_date, valuation_date)]
    /\ pc' = "bootstrap_dfs_from_bonds"
    /\ UNCHANGED <<bonds, q, df_by_date, progressed, pass_left, solve_log, notBoot>>

\* Lines 119-135: the while condition fails
EndBootstrap ==
    /\ pc = "while"
    /\ ~(q # <<>> /\ progressed)
    /\ nodes' = IF q # <<>>
                THEN [raised |-> TRUE, pending |-> Pending(q)]
                ELSE [raised |-> FALSE,
                      nodes |-> DiscountFactorNodes(df_by_date, valuation_date)]
    /\ pc' = "bootstrap_dfs_from_bonds"
    /\ UNCHANGED <<bonds, q, df_by_date, progressed, pass_left, solve_log, notBoot>>

NextBoot == BuildQueue \/ BeginPass \/ BondRound \/ EndBootstrap

SpecBoot == InitBoot /\ [][NextBoot]_vars

\* the position of a call that has not ended moves on: past the build of the
\* queue, from the while condition into a pass or to the end, through one
\* more round of the for loop
BootAdvances ==
    \/ /\ pc = "call_bootstrap_dfs_from_bonds"
       /\ pc' = "while"
       /\ pass_left' = pass_left
    \/ /\ pc = "while"
       /\ pc' \in {"for", "bootstrap_dfs_from_bonds"}
       /\ pass_left' \in {pass_left, Len(q)}
    \/ /\ pc = "for"
       /\ pc' \in {"for", "while"}
       /\ pass_left' = pass_left - 1

\* the interpreter runs a call on as long as it has not ended
FairSpecBoot == SpecBoot /\ WF_<<pc, pass_left>>(BootAdvances)

-----------------------------------------------------------------------------
(* Claims about bootstrap_dfs_from_bonds *)

SameSign(a, b) == (a > 0 /\ b > 0) \/ (a < 0 /\ b < 0)

\* C7: a solve whose residual has the same sign at both ends of the bracket
\* stores nothing (the bootstrap raises): no discount factor stored comes from
\* such a bracket.
C7_SameSignBracketStoresNothing ==
    \A i \in 1..Len(solve_log) : ~SameSign(solve_log[i].f_lo, solve_log[i].f_hi)

Ended == pc = "bootstrap_dfs_from_bonds"

\* the last flow date of every bond that has a flow after the valuation date
LastFlowDates ==
    {item.flows[Len(item.flows)][1] :
        item \in {Items(bonds, valuation_date)[i] :
                     i \in 1..Len(Items(bonds, valuation_date))}}

NodeDates == {nodes.nodes[i].date : i \in 1..Len(nodes.nodes)}

\* the call has ended with a node for every bond that has future flows, or
\* with the error that names the bonds still in the queue
EndedSolvedOrNamed ==
    Ended => IF nodes.raised
             THEN q # <<>> /\ nodes.pending = Pending(q)
             ELSE q = <<>> /\ LastFlowDates \subseteq NodeDates

\* the bonds left in the queue by a pass are all tried by the pass that
\* follows, or named by the error
DeferredRetriedOrNamed ==
    (pc = "while" /\ q # <<>>)
        ~> \/ pc = "for" /\ pass_left = Len(q)
           \/ Ended /\ nodes.raised /\ nodes.pending = Pending(q)

\* C8: the bonds a pass defers are retried by the next pass, the call always
\* ends, and it ends with a node for every bond that has future flows or with
\* the error naming the bonds still pending, never with a normal return while
\* a bond is unsolved.
C8_DeferredRetriedAndCallEnds ==
    /\ []EndedSolvedOrNamed
    /\ <>Ended
    /\ DeferredRetriedOrNamed

\* a bond was solved in one pass, another was deferred and retried, and the
\* call ended with the error naming it
C8_RetriedThenNamed ==
    /\ Ended
    /\ nodes.raised
    /\ solve_log # <<>>
    /\ Len(nodes.pending) >= 1

\* C9: every discount factor a solve reads is that of a pillar solved in an
\* earlier step, at a date before the pillar being solved.
C9_ReadsOnlyEarlierPillars ==
    \A i \in 1..Len(solve_log) :
        \A d \in solve_log[i].reads :
            /\ d < solve_log[i].D_T
            /\ \E j \in 1..(i - 1) : solve_log[j].D_T = d


-----------------------------------------------------------------------------
(* The IBOR projection curve bootstrap: swap/curves/ibor/bootstrap         *)
(*                                                                         *)
(* Pseudo discount factors px and OIS discount factors are in units of     *)
(* 1/DiscOne, rates in basis points, times on the curve's ACT/365F axis in *)
(* days from the curve date, leg values in units of 1/DiscOne.             *)

\* swap/business_calendar/date_calculator.py, with the defaults of its
\* arguments: spot lag 2, MODIFIED_FOLLOWING, end-of-month rule on
get_spot_date(trade_date) == add_business_days(trade_date, 2)

add_tenor_months(start_date, tenor_months) ==
    adjust_date(apply_end_of_month_rule(start_date, tenor_months, TRUE),
                "MODIFIED_FOLLOWING")

compute_maturity(curve_date, tenor_months) ==
    add_tenor_months(get_spot_date(curve_date), tenor_months)

\* the while loop of generate_annual_payment_schedule
RECURSIVE AnnualDates(_, _)
AnnualDates(current, maturity) ==
    LET next_d == add_tenor_months(current, 12)
    IN IF next_d >= maturity THEN <<maturity>>
       ELSE <<next_d>> \o AnnualDates(next_d, maturity)

generate_annual_payment_schedule(curve_date, tenor_months) ==
    <<get_spot_date(curve_date)>>
        \o AnnualDates(get_spot_date(curve_date),
                       compute_maturity(curve_date, tenor_months))

\* the day count of 30E/360
Thirty360European(start, end) ==
    360 * (YearOf(end) - YearOf(start)) + 30 * (MonthOf(end) - MonthOf(start))
        + (Min(DayOf(end), 30) - Min(DayOf(start), 30))

\* swap/instruments/deposit.py: the fields of the DepositConvention that the
\* instrument reads; leg_type stands for the class of the convention
EURIBOR_6M_DEPOSIT ==
    [leg_type |-> "DEPOSIT", settlement_lag_days |-> 2,
     business_day_adjustment |-> "MODIFIED_FOLLOWING"]

\* instruments.py: DepositInstrument; accrual_fraction is held as the day
\* count of ACT/360
DepositInstrument(curve_date, tenor_months, rate) ==
    [kind |-> "deposit", tenor |-> tenor_months, rate |-> rate,
     spot_date |-> get_spot_date(curve_date),
     maturity_date |-> compute_maturity(curve_date, tenor_months)]

accrual_fraction(deposit) == DaysBetween(deposit.spot_date, deposit.maturity_date)

\* SwapInstrument._build_floating_periods: the periods of the generator that
\* have a positive year fraction
RECURSIVE FloatingPeriods(_, _)
FloatingPeriods(schedule, i) ==
    IF i > Len(schedule) THEN <<>>
    ELSE (IF schedule[i].year_fraction <= 0 THEN <<>>
          ELSE <<[accrual_start |-> schedule[i].accrual_start,
                  accrual_end |-> schedule[i].accrual_end,
                  year_fraction |-> schedule[i].year_fraction]>>)
         \o FloatingPeriods(schedule, i + 1)

\* SwapInstrument: the constructor raises what generate_schedule raises
SwapInstrument(curve_date, tenor_months, rate, floating_leg) ==
    With(compute_maturity(curve_date, tenor_months), LAMBDA maturity :
    With(generate_schedule(get_spot_date(curve_date), maturity, floating_leg,
                           "SHORT_FINAL", 0),
         LAMBDA schedule :
         [kind |-> "swap", tenor |-> tenor_months, fixed_rate |-> rate,
          maturity_date |-> maturity,
          raised |-> schedule.raised,
          fixed_schedule |-> generate_annual_payment_schedule(curve_date,
                                                               tenor_months),
          floating_periods |-> FloatingPeriods(schedule.periods, 1)]))

\* fixed_cashflows: (start, end, alpha), alpha held as the 30E/360 day count
fixed_cashflows(swap) ==
    [i \in 1..(Len(swap.fixed_schedule) - 1) |->
        <<swap.fixed_schedule[i], swap.fixed_schedule[i + 1],
          Thirty360European(swap.fixed_schedule[i], swap.fixed_schedule[i + 1])>>]

\* create_instrument_from_quote, on a quote whose rate is in basis points of
\* the number quoted (a quoted 1.0 is 10000)
create_instrument_from_quote(curve_date, quote) ==
    LET rate == IF quote.rate > 10000 THEN RoundDiv(quote.rate, 100)
                ELSE quote.rate
    IN IF quote.instrument.leg_type = "DEPOSIT"
       THEN DepositInstrument(curve_date, quote.tenor, rate)
       ELSE SwapInstrument(curve_date, quote.tenor, rate, quote.instrument)

\* math.log and math.exp on the grid, for a px above one and an exponent
\* above zero as well
RECURSIVE LnPx(_)
LnPx(x) == IF x > DiscOne THEN LnPx(RoundDiv(x, 2)) + Ln2 ELSE Ln(x)

ExpPx(v) == IF v > 0 THEN RoundDiv(DiscOne * DiscOne, Max(Exp(-v), 1)) ELSE Exp(v)

\* engine.py: _ois_df, on an OIS curve flat in the zero rate context.ois_rate
_ois_df(context, target_date) ==
    ExpPx(-RoundDiv(context.ois_rate * DaysBetween(context.curve_date, target_date),
                    365))

RECURSIVE FixedLegSum(_, _, _, _)
FixedLegSum(context, fixed_rate, cashflows, i) ==
    IF i > Len(cashflows) THEN 0
    ELSE RoundDiv(fixed_rate * cashflows[i][3] * _ois_df(context, cashflows[i][2]),
                  360 * DiscOne)
         + FixedLegSum(context, fixed_rate, cashflows, i + 1)

_fixed_leg_pv(context, swap) ==
    FixedLegSum(context, swap.fixed_rate, fixed_cashflows(swap), 1)

\* NoDate stands for the ValueError
_get_prev_anchor(projection_map, final_end) ==
    LET before == {d \in DOMAIN projection_map : d < final_end}
    IN IF before = {} THEN NoDate
       ELSE CHOOSE d \in before : \A e \in before : e <= d

\* the engine is the record of curve_date, ois_rate, pillars and results;
\* projection_map is the copy state.projection_map() returns
_setup_swap_context(engine, swap, float_periods) ==
    With(float_periods[Len(float_periods)].accrual_end, LAMBDA final_end :
    With(_get_prev_anchor(engine.pillars, final_end), LAMBDA prev_anchor_date :
        [raised |-> prev_anchor_date = NoDate,
         curve_date |-> engine.curve_date,
         ois_rate |-> engine.ois_rate,
         fixed_pv |-> _fixed_leg_pv(engine, swap),
         projection_map |-> engine.pillars,
         final_end |-> final_end,
         prev_anchor_date |-> prev_anchor_date,
         known_dates_sorted |-> SortedDates(DOMAIN engine.pillars),
         px_prev |-> IF prev_anchor_date = NoDate THEN 0
                     ELSE engine.pillars[prev_anchor_date]]))

\* df1 * exp(-forward_rate * (t_target - t1)), forward_rate the log of df1 / df2
\* over t2 - t1
StepForward(df1, df2, t1, t2, t_target) ==
    ExpPx(LnPx(df1) - RoundDiv((LnPx(df1) - LnPx(df2)) * (t_target - t1), t2 - t1))

_step_forward_interpolate(t_target, times, dates, projection_map) ==
    LET hits == {idx \in 1..(Len(times) - 1) :
                    times[idx] <= t_target /\ t_target <= times[idx + 1]}
    IN IF hits = {} THEN projection_map[dates[Len(dates)]]
       ELSE LET idx == CHOOSE i \in hits : \A j \in hits : i <= j
            IN StepForward(projection_map[dates[idx]], projection_map[dates[idx + 1]],
                           times[idx], times[idx + 1], t_target)

_interpolate_existing(target_date, context) ==
    LET known == context.known_dates_sorted
        times == [i \in 1..Len(known) |-> DaysBetween(context.curve_date, known[i])]
        t_target == DaysBetween(context.curve_date, target_date)
    IN IF target_date \in DOMAIN context.projection_map
       THEN context.projection_map[target_date]
       ELSE IF t_target <= times[1] THEN context.projection_map[known[1]]
       ELSE IF t_target >= times[Len(times)]
       THEN context.projection_map[known[Len(known)]]
       ELSE _step_forward_interpolate(t_target, times, known, context.projection_map)

_project_df(target_date, candidate_px, context) ==
    LET t_target == DaysBetween(context.curve_date, target_date)
        t_prev == DaysBetween(context.curve_date, context.prev_anchor_date)
        t_final == DaysBetween(context.curve_date, context.final_end)
    IN IF target_date \in DOMAIN context.projection_map
          /\ target_date <= context.prev_anchor_date
       THEN context.projection_map[target_date]
       ELSE IF t_target <= t_prev THEN _interpolate_existing(target_date, context)
       ELSE IF t_target >= t_final THEN candidate_px
       ELSE StepForward(context.px_prev, candidate_px, t_prev, t_final, t_target)

\* year_fraction * forward * df of one period: (px_start / px_end - 1) * df
RECURSIVE _calculate_floating_pv(_, _, _, _)
_calculate_floating_pv(float_periods, px_final, context, i) ==
    IF i > Len(float_periods) THEN 0
    ELSE With(_project_df(float_periods[i].accrual_start, px_final, context),
              LAMBDA px_start :
         With(_project_df(float_periods[i].accrual_end, px_final, context),
              LAMBDA px_end :
              RoundDiv((px_start - px_end)
                           * _ois_df(context, float_periods[i].accrual_end), px_end)
              + _calculate_floating_pv(float_periods, px_final, context, i + 1)))

\* the residual of _create_residual_function
SwapResidual(float_periods, context, px_final) ==
    context.fixed_pv - _calculate_floating_pv(float_periods, px_final, context, 1)

BracketAttempts == 20

\* Lines 250-257: the while loop
RECURSIVE BracketLoop(_, _, _)
BracketLoop(float_periods, context, s) ==
    IF ~(Sgn(s.res_lower) * Sgn(s.res_upper) > 0 /\ s.attempts < BracketAttempts)
    THEN s
    ELSE IF Abs(s.res_lower) < Abs(s.res_upper)
    THEN With(RoundDiv(s.lower, 2), LAMBDA lower :
              BracketLoop(float_periods, context,
                          [s EXCEPT !.lower = lower,
                                    !.res_lower = SwapResidual(float_periods,
                                                               context, lower),
                                    !.attempts = s.attempts + 1]))
    ELSE With(RoundDiv(s.upper * 6, 5), LAMBDA upper :
              BracketLoop(float_periods, context,
                          [s EXCEPT !.upper = upper,
                                    !.res_upper = SwapResidual(float_periods,
                                                               context, upper),
                                    !.attempts = s.attempts + 1]))

_bracket_solution(float_periods, context) ==
    With(Min(RoundDiv(context.px_prev, 10), DiscOne \div 100), LAMBDA lower :
    With(Max(RoundDiv(context.px_prev * 3, 2), (3 * DiscOne) \div 2), LAMBDA upper :
    With(BracketLoop(float_periods, context,
                     [lower |-> lower, upper |-> upper,
                      res_lower |-> SwapResidual(float_periods, context, lower),
                      res_upper |-> SwapResidual(float_periods, context, upper),
                      attempts |-> 0]),
         LAMBDA s :
         [raised |-> Sgn(s.res_lower) * Sgn(s.res_upper) > 0,
          lower |-> s.lower, upper |-> s.upper])))

\* Lines 271-282 on the grid of px: one round of the for loop; both
\* tolerances are below one unit of the grid
SwapBisectRound(float_periods, context, s) ==
    IF s.returned THEN s
    ELSE
    With(Mid(s.lower, s.upper), LAMBDA mid :
    With(SwapResidual(float_periods, context, mid), LAMBDA res_mid :
       IF Abs(res_mid) < 1 \/ Abs(s.upper - s.lower) < 1
       THEN [s EXCEPT !.mid = mid, !.returned = TRUE]
       ELSE IF Sgn(s.res_lower) * Sgn(res_mid) <= 0 THEN [s EXCEPT !.upper = mid]
       ELSE [s EXCEPT !.lower = mid, !.res_lower = res_mid]))

RECURSIVE SwapBisectLoop(_, _, _, _)
SwapBisectLoop(float_periods, context, s, n) ==
    IF n = 0 THEN s
    ELSE IF n = 1 THEN SwapBisectRound(float_periods, context, s)
    ELSE With(SwapBisectLoop(float_periods, context, s, n \div 2),
              LAMBDA t : SwapBisectLoop(float_periods, context, t, n - (n \div 2)))

\* Lines 267-284 with the residual of the swap
SwapBisectSolution(float_periods, context, lower, upper) ==
    With(SwapBisectLoop(float_periods, context,
                        [lower |-> lower, upper |-> upper,
                         res_lower |-> SwapResidual(float_periods, context, lower),
                         mid |-> 0, returned |-> FALSE],
                        IborBisectIterations),
         LAMBDA s : IF s.returned THEN s.mid ELSE Mid(s.lower, s.upper))

_solve_for_pseudo_df(float_periods, context) ==
    With(_bracket_solution(float_periods, context), LAMBDA b :
       IF b.raised THEN [raised |-> TRUE, px_end |-> 0]
       ELSE With(SwapBisectSolution(float_periods, context, b.lower, b.upper),
                 LAMBDA px_end : [raised |-> px_end <= 0, px_end |-> px_end]))

\* Lines 298-301: the for loop writes into context['projection_map']
RECURSIVE FinalizeRounds(_, _, _, _)
FinalizeRounds(float_periods, px_end, context, i) ==
    IF i > Len(float_periods) THEN context
    ELSE With(_project_df(float_periods[i].accrual_end, px_end, context),
              LAMBDA df_val :
              FinalizeRounds(float_periods, px_end,
                             [context EXCEPT !.projection_map =
                                 SetItem(context.projection_map,
                                         float_periods[i].accrual_end, df_val)],
                             i + 1))

_result_entry(tenor, maturity, px) ==
    [tenor |-> tenor, maturity |-> maturity, discount_factor |-> px]

\* the engine after the call, and the context the call worked in
_finalize_swap_bootstrap(engine, swap, float_periods, px_end, context) ==
    [raised |-> FALSE,
     engine |-> [engine EXCEPT
                   !.pillars = SetItem(engine.pillars,
                                       float_periods[Len(float_periods)].accrual_end,
                                       px_end),
                   !.results = Append(engine.results,
                                      _result_entry(swap.tenor, swap.maturity_date,
                                                    px_end))],
     context |-> FinalizeRounds(float_periods, px_end, context, 1)]

bootstrap_swap(engine, swap) ==
    IF swap.floating_periods = <<>>
    THEN [raised |-> TRUE, engine |-> engine, context |-> NoCall]
    ELSE
    With(_setup_swap_context(engine, swap, swap.floating_periods), LAMBDA context :
       IF context.raised
       THEN [raised |-> TRUE, engine |-> engine, context |-> context]
       ELSE With(_solve_for_pseudo_df(swap.floating_periods, context), LAMBDA solved :
            IF solved.raised
            THEN [raised |-> TRUE, engine |-> engine, context |-> context]
            ELSE _finalize_swap_bootstrap(engine, swap, swap.floating_periods,
                                          solved.px_end, context)))

\* front_stub_df / (1.0 + deposit.rate * deposit.accrual_fraction())
_deposit_pseudo_df(deposit, front_stub_df) ==
    RoundDiv(front_stub_df * 36000,
             36000 + RoundDiv(deposit.rate * accrual_fraction(deposit), 100))

RECURSIVE InsertByMaturity(_, _)
InsertByMaturity(sorted, inst) ==
    IF sorted = <<>> THEN <<inst>>
    ELSE IF inst.maturity_date < Head(sorted).maturity_date THEN <<inst>> \o sorted
    ELSE <<Head(sorted)>> \o InsertByMaturity(Tail(sorted), inst)

\* sorted(instruments, key=lambda s: s.get_maturity()), a stable sort
RECURSIVE SortByMaturity(_)
SortByMaturity(instruments) ==
    IF instruments = <<>> THEN <<>>
    ELSE InsertByMaturity(SortByMaturity(SubSeq(instruments, 1, Len(instruments) - 1)),
                          instruments[Len(instruments)])

RECURSIVE DepositRounds(_, _, _)
DepositRounds(engine, deposits, i) ==
    IF i > Len(deposits) THEN engine
    ELSE With(_deposit_pseudo_df(deposits[i], DiscOne), LAMBDA px :
              DepositRounds([engine EXCEPT
                               !.pillars = SetItem(engine.pillars,
                                                   deposits[i].maturity_date, px),
                               !.results = Append(engine.results,
                                                  _result_entry(deposits[i].tenor,
                                                      deposits[i].maturity_date, px))],
                            deposits, i + 1))

\* set_front_stub writes the pillar of the spot date; _compute_front_stub is 1.0
bootstrap_deposits(engine, deposits) ==
    DepositRounds([engine EXCEPT !.pillars = SetItem(engine.pillars,
                                                     engine.spot_date, DiscOne)],
                  SortByMaturity(deposits), 1)

\* BootstrapEngine.__init__ with ProjectionCurveState.__init__
BootstrapEngine(curve_date, ois_rate) ==
    [curve_date |-> curve_date,
     spot_date |-> get_spot_date(curve_date),
     ois_rate |-> ois_rate,
     pillars |-> SetItem(<<>>, curve_date, DiscOne),
     results |-> <<>>]

\* ProjectionCurveState.build_curve: the pillars in date order, handed to
\* IborProjectionCurve, which raises on fewer than two and on a px <= 0
build_curve(engine) ==
    With(SortedDates(DOMAIN engine.pillars), LAMBDA dates :
         [raised |-> Len(dates) < 2 \/ \E d \in DOMAIN engine.pillars :
                                          engine.pillars[d] <= 0,
          pillar_times |-> [i \in 1..Len(dates) |->
                              DaysBetween(engine.curve_date, dates[i])],
          pseudo_discount_factors |-> [i \in 1..Len(dates) |->
                                         engine.pillars[dates[i]]]])

\* sorted(self._results, key=lambda r: r.maturity)
get_results(engine) ==
    SortByMaturity([i \in 1..Len(engine.results) |->
                      [maturity_date |-> engine.results[i].maturity,
                       tenor |-> engine.results[i].tenor,
                       discount_factor |-> engine.results[i].discount_factor]])

-----------------------------------------------------------------------------
(* IBOR curve builds: IborCurveBuilder.build and                           *)
(* CurveFactory.create_ibor_curve, one action per step of their bodies     *)

MaxSwaps == 3

IborCurveDate == MkDate(2024, 1, 15)

\* zero rate of the OIS curve, in basis points
OisRate == 250

\* (tenor in months, rate in basis points)
DepositTerms == {<<6, 250>>}
SwapTerms == {<<12, 300>>, <<18, 310>>, <<24, 320>>, <<36, 330>>}

SwapTermLists == UNION {[1..n -> SwapTerms] : n \in 1..MaxSwaps}
DepositTermLists == {<<>>} \cup {<<d>> : d \in DepositTerms}

\* the quotes add_ibor_quotes was given: deposits and swaps as the caller
\* ordered them, rates quoted in percent
IborQuotes(deposit_terms, swap_terms) ==
    [i \in 1..Len(deposit_terms) |->
        [instrument |-> EURIBOR_6M_DEPOSIT, tenor |-> deposit_terms[i][1],
         rate |-> deposit_terms[i][2] * 100]]
    \o [i \in 1..Len(swap_terms) |->
        [instrument |-> EURIBOR_6M_FLOATING, tenor |-> swap_terms[i][1],
         rate |-> swap_terms[i][2] * 100]]

InitIbor ==
    /\ SchedIdle /\ PriceIdle /\ YtmIdle /\ BisectIdle /\ BootIdle /\ CallIdle
    /\ pc \in {"call_build", "call_create_ibor_curve"}
    /\ \E curve_date \in {IborCurveDate}, deposit_terms \in DepositTermLists,
          swap_terms \in SwapTermLists :
          ibor_call =
             IF pc = "call_build"
             THEN [fn |-> "build", curve_date |-> curve_date, ois_rate |-> OisRate,
                   quotes |-> IborQuotes(deposit_terms, swap_terms)]
             ELSE [fn |-> "create_ibor_curve", curve_date |-> curve_date,
                   ois_rate |-> OisRate,
                   deposits |-> [i \in 1..Len(deposit_terms) |->
                                   DepositInstrument(curve_date, deposit_terms[i][1],
                                                     deposit_terms[i][2])],
                   swaps |-> [i \in 1..Len(swap_terms) |->
                                SwapInstrument(curve_date, swap_terms[i][1],
                                               swap_terms[i][2], EURIBOR_6M_FLOATING)]]
    /\ engine_pillars = <<>>
    /\ engine_results = <<>>
    /\ swap_queue = <<>>
    /\ context_map = <<>>
    /\ ibor_build = NoBuild

\* the engine object of the build under way
Engine ==
    [curve_date |-> ibor_call.curve_date,
     spot_date |-> get_spot_date(ibor_call.curve_date),
     ois_rate |-> ibor_call.ois_rate,
     pillars |-> engine_pillars,
     results |-> engine_results]

RECURSIVE OfKind(_, _)
OfKind(instruments, kind) ==
    IF instruments = <<>> THEN <<>>
    ELSE (IF Head(instruments).kind = kind THEN <<Head(instruments)>> ELSE <<>>)
         \o OfKind(Tail(instruments), kind)

\* builder.py lines 94-108: the instruments of the quotes, the engine, the
\* deposits, and the swaps in the order the for loop visits them
BuilderBuild ==
    /\ pc = "call_build"
    /\ \E instruments \in {[i \in 1..Len(ibor_call.quotes) |->
                              create_instrument_from_quote(ibor_call.curve_date,
                                                           ibor_call.quotes[i])]} :
       \E engine \in {bootstrap_deposits(BootstrapEngine(ibor_call.curve_date,
                                                         ibor_call.ois_rate),
                                         OfKind(instruments, "deposit"))} :
          /\ engine_pillars' = engine.pillars
          /\ engine_results' = engine.results
          /\ swap_queue' = SortByMaturity(OfKind(instruments, "swap"))
    /\ pc' = "for_swap"
    /\ UNCHANGED <<ibor_call, context_map, ibor_build, notIbor>>

\* factory.py lines 242-249: the engine, the deposits when there are any, and
\* the swaps in the order the for loop visits them
FactoryCreate ==
    /\ pc = "call_create_ibor_curve"
    /\ \E created \in {BootstrapEngine(ibor_call.curve_date, ibor_call.ois_rate)} :
       \E engine \in {IF ibor_call.deposits # <<>>
                      THEN bootstrap_deposits(created, ibor_call.deposits)
                      ELSE created} :
          /\ engine_pillars' = engine.pillars
          /\ engine_results' = engine.results
    /\ swap_queue' = ibor_call.swaps
    /\ pc' = "for_swap"
    /\ UNCHANGED <<ibor_call, context_map, ibor_build, notIbor>>

\* one round of the for loop of either entry point: engine.bootstrap_swap(swap)
BootstrapSwap ==
    /\ pc = "for_swap"
    /\ swap_queue # <<>>
    /\ \E r \in {bootstrap_swap(Engine, Head(swap_queue))} :
          IF r.raised
          THEN /\ ibor_build' = [raised |-> TRUE, curve |-> <<>>]
               /\ pc' = "raised"
               /\ UNCHANGED <<engine_pillars, engine_results, context_map>>
          ELSE /\ engine_pillars' = r.engine.pillars
               /\ engine_results' = r.engine.results
               /\ context_map' = r.context.projection_map
               /\ pc' = "for_swap"
               /\ UNCHANGED ibor_build
    /\ swap_queue' = Tail(swap_queue)
    /\ UNCHANGED <<ibor_call, notIbor>>

\* builder.py lines 111-116 and factory.py line 252: the loop is over
GetCurve ==
    /\ pc = "for_swap"
    /\ swap_queue = <<>>
    /\ \E curve \in {build_curve(Engine)} :
          ibor_build' =
             IF curve.raised THEN [raised |-> TRUE, curve |-> <<>>]
             ELSE IF ibor_call.fn = "build"
             THEN [raised |-> FALSE, curve |-> curve,
                   results |-> get_results(Engine),
                   projection_map |-> engine_pillars]
             ELSE [raised |-> FALSE, curve |-> curve]
    /\ pc' = ibor_call.fn
    /\ UNCHANGED <<ibor_call, engine_pillars, engine_results, swap_queue,
                   context_map, notIbor>>

NextIbor == BuilderBuild \/ FactoryCreate \/ BootstrapSwap \/ GetCurve

SpecIbor == InitIbor /\ [][NextIbor]_vars

-----------------------------------------------------------------------------
(* Claims about the IBOR curve builds *)

\* C10: through every entry point that builds an IBOR projection curve the
\* swaps are bootstrapped in ascending order of maturity, whatever order the
\* caller gave them in: the swap a round of the for loop leaves next in line
\* does not mature before the swap the round bootstrapped.
C10_SwapsBootstrappedAscending ==
    [][(pc = "for_swap" /\ swap_queue # <<>> /\ pc' = "for_swap"
            /\ swap_queue' # <<>>)
          => Head(swap_queue).maturity_date <= Head(swap_queue').maturity_date]_vars

\* C11: after bootstrap_swap has finished for a swap, the persistent
\* projection map of the engine (state._pillars, which get_projection_map and
\* the context of the next swap copy) holds every date the call wrote a px
\* for, the intermediate floating-period end dates among them, with that px.
C11_IntermediateEndsPersist ==
    \A d \in DOMAIN context_map :
        d \in DOMAIN engine_pillars /\ engine_pillars[d] = context_map[d]

\* the deposits and the swaps handed to the build
BuildDeposits ==
    IF ibor_call.fn = "build"
    THEN {i \in DOMAIN ibor_call.quotes :
             ibor_call.quotes[i].instrument.leg_type = "DEPOSIT"}
    ELSE DOMAIN ibor_call.deposits

BuildSwapTenors ==
    IF ibor_call.fn = "build"
    THEN [i \in {j \in DOMAIN ibor_call.quotes :
                    ibor_call.quotes[j].instrument.leg_type # "DEPOSIT"} |->
             ibor_call.quotes[i].tenor]
    ELSE [i \in DOMAIN ibor_call.swaps |-> ibor_call.swaps[i].tenor]

DistinctSwapMaturities ==
    \A i, j \in DOMAIN BuildSwapTenors :
        i # j => BuildSwapTenors[i] # BuildSwapTenors[j]

\* C12: the curve built from one deposit and n swaps of distinct maturities
\* has exactly 1 (spot) + 1 (deposit) + n pillars.
C12_PillarCount ==
    (/\ pc \in {"build", "create_ibor_curve"}
     /\ ~ibor_build.raised
     /\ Cardinality(BuildDeposits) = 1
     /\ DistinctSwapMaturities)
        => Len(ibor_build.curve.pillar_times)
              = 1 + 1 + Cardinality(DOMAIN BuildSwapTenors)

-----------------------------------------------------------------------------
(* Curve bumps: bond/ktb/greeks.py, ktb/krd.py, bond/ktb/curve.py and      *)
(* swap/curves/discount.py                                                 *)
(*                                                                         *)
(* The objects of the interpreter are held in heap, a function from object *)
(* ids to dicts, lists, CurveNode, ZeroCurve and OISDiscountCurve objects; *)
(* an attribute that holds an object holds its id.  Tenors are in eighths  *)
(* of a year, yields in percent in units of 1/PercentOne of a percent,         *)
(* decimal yields in units of 1/YieldOne, basis points as integers, pillar *)
(* times in days and discount factors in units of 1/DiscOne.               *)

PercentOne == 100

NewId(objs) == Cardinality(DOMAIN objs) + 1

Dict(items) == [type |-> "dict", items |-> items]
List(items) == [type |-> "list", items |-> items]
CurveNode(tenor_years, yield) ==
    [type |-> "CurveNode", tenor_years |-> tenor_years, ytm |-> yield]

\* bond/utils/mathutils.py linear_interpolate, which ktb/krd.py
\* _linear_interpolate and numpy.interp agree with: flat outside the keys
linear_interpolate(value, data) ==
    LET keys == SortedDates(DOMAIN data)
        hits == {idx \in 2..Len(keys) : keys[idx - 1] <= value /\ value <= keys[idx]}
    IN IF value <= keys[1] THEN data[keys[1]]
       ELSE IF value >= keys[Len(keys)] THEN data[keys[Len(keys)]]
       ELSE LET idx == CHOOSE i \in hits : \A j \in hits : i <= j
                x0 == keys[idx - 1]
                x1 == keys[idx]
            IN data[x0] + RoundDiv((value - x0) * (data[x1] - data[x0]), x1 - x0)

\* greeks.py _bump_par_curve: the heap after the call and the object returned
_bump_par_curve(objs, ytm_curve, key_tenor, bump_bp) ==
    IF objs[ytm_curve].type = "dict"
    THEN LET items == objs[ytm_curve].items
             base == IF key_tenor \in DOMAIN items THEN items[key_tenor]
                     ELSE linear_interpolate(key_tenor, items)
             bumped == SetItem(items, key_tenor,
                               base - RoundDiv(bump_bp * PercentOne, 100))
         IN [raised |-> FALSE, heap |-> SetItem(objs, NewId(objs), Dict(bumped)),
             result |-> NewId(objs)]
    ELSE LET bump_nodes == objs[ytm_curve].items
             found == {i \in 1..Len(bump_nodes) :
                          objs[bump_nodes[i]].tenor_years = key_tenor}
         IN IF found = {}
            THEN [raised |-> TRUE, heap |-> objs, result |-> 0]
            ELSE LET idx == CHOOSE i \in found : \A j \in found : i <= j
                     dec_bump == RoundDiv(bump_bp * YieldOne, 100)
                     node == NewId(objs)
                     with_node == SetItem(objs, node,
                                      CurveNode(objs[bump_nodes[idx]].tenor_years,
                                                objs[bump_nodes[idx]].ytm - dec_bump))
                 IN [raised |-> FALSE,
                     heap |-> SetItem(with_node, NewId(with_node),
                                      List([bump_nodes EXCEPT ![idx] = node])),
                     result |-> NewId(with_node)]

\* _shift_par_curve writing the shift into the dict it was handed
ShiftParCurveInPlace(objs, par_curve_pct, tenor, shift_bp) ==
    LET items == objs[par_curve_pct].items
        shift_pct == RoundDiv(shift_bp * PercentOne, 100)
        base == IF tenor \in DOMAIN items THEN items[tenor]
                ELSE linear_interpolate(tenor, items)
    IN [raised |-> FALSE,
        heap |-> SetItem(objs, par_curve_pct, Dict(SetItem(items, tenor, base + shift_pct))),
        result |-> par_curve_pct]

\* krd.py _shift_par_curve
_shift_par_curve(objs, par_curve_pct, tenor, shift_bp) ==
    LET items == objs[par_curve_pct].items
        shift_pct == RoundDiv(shift_bp * PercentOne, 100)
        base == IF tenor \in DOMAIN items THEN items[tenor]
                ELSE linear_interpolate(tenor, items)
    IN [raised |-> FALSE,
        heap |-> SetItem(objs, NewId(objs), Dict(SetItem(items, tenor, base + shift_pct))),
        result |-> NewId(objs)]

\* curve.py _normalize_nodes; empty nodes and a tenor <= 0 raise
_normalize_nodes(items) ==
    IF DOMAIN items = {} \/ \E t \in DOMAIN items : t <= 0
    THEN [raised |-> TRUE, items |-> items]
    ELSE LET max_abs == CHOOSE m \in {Abs(items[t]) : t \in DOMAIN items} :
                           \A t \in DOMAIN items : Abs(items[t]) <= m
         IN [raised |-> FALSE,
             items |-> [t \in DOMAIN items |->
                          IF max_abs > YieldOne THEN RoundDiv(items[t], 100)
                          ELSE items[t]]]

\* the per-node rule of ZeroCurve.__init__ and _bootstrap_zero_rates_from_par
PercentToDecimal(value) ==
    IF Abs(value) >= YieldOne THEN RoundDiv(value, 100) ELSE value

QuarterYear == 2
HalfYear == 4

\* math.log(1 + rate) by its series to the third power
LnOnePlus(rate) ==
    rate - MulDiv(Abs(rate), Abs(rate), 2 * YieldOne)
         + Sgn(rate) * MulDiv(MulDiv(Abs(rate), Abs(rate), YieldOne), Abs(rate),
                              3 * YieldOne)

\* curve.py _bootstrap_zero_rates_from_par on par nodes up to half a year,
\* which lines 81-84 pass over: the anchors of a quarter and of half a year
\* (lines 72-77) and their continuous rates (lines 148-152)
_bootstrap_zero_rates_from_par(par_nodes) ==
    LET ytm_decimal == [t \in DOMAIN par_nodes |-> PercentToDecimal(par_nodes[t])]
        anchors == DOMAIN ytm_decimal \cap {QuarterYear, HalfYear}
        zero_simple ==
            [t \in anchors |->
                IF t = QuarterYear THEN ytm_decimal[t]
                ELSE ytm_decimal[t]
                       + MulDiv(Abs(ytm_decimal[t]), Abs(ytm_decimal[t]), 4 * YieldOne)]
    IN [t \in anchors |-> LnOnePlus(zero_simple[t])]

\* ZeroCurve.__init__ for comp "cont": the heap with the new curve and the
\* dicts it holds, and the id of the curve
ZeroCurve(objs, items, kind) ==
    IF kind = "par"
    THEN LET par_decimals == [t \in DOMAIN items |-> PercentToDecimal(items[t])]
             par_id == NewId(objs)
             with_par == SetItem(objs, par_id, Dict(par_decimals))
             nodes_id == NewId(with_par)
             with_nodes == SetItem(with_par, nodes_id,
                                   Dict(_bootstrap_zero_rates_from_par(par_decimals)))
         IN [raised |-> DOMAIN items = {},
             heap |-> SetItem(with_nodes, NewId(with_nodes),
                              [type |-> "ZeroCurve", kind |-> "par",
                               par_nodes |-> par_id, zero_nodes |-> nodes_id]),
             result |-> NewId(with_nodes)]
    ELSE LET normalized == _normalize_nodes(items)
             nodes_id == NewId(objs)
             with_nodes == SetItem(objs, nodes_id, Dict(normalized.items))
         IN [raised |-> normalized.raised,
             heap |-> SetItem(with_nodes, NewId(with_nodes),
                              [type |-> "ZeroCurve", kind |-> "zero",
                               par_nodes |-> 0, zero_nodes |-> nodes_id]),
             result |-> NewId(with_nodes)]

\* ZeroCurve.zero: linear in the tenor between the nodes, flat outside
zero(objs, curve, t) == linear_interpolate(t, objs[objs[curve].zero_nodes].items)

\* ZeroCurve.clone_with_shifted_node; a constructor that raises leaves the
\* heap as it was
clone_with_shifted_node(objs, curve, tenor, shift_bp) ==
    LET shift == RoundDiv(shift_bp * YieldOne, 10000)
        par_items == objs[objs[curve].par_nodes].items
        zero_items == objs[objs[curve].zero_nodes].items
        made ==
            IF objs[curve].kind = "par" /\ objs[curve].par_nodes # 0
            THEN ZeroCurve(objs,
                           SetItem(par_items, tenor,
                                   (IF tenor \in DOMAIN par_items THEN par_items[tenor]
                                    ELSE linear_interpolate(tenor, par_items)) + shift),
                           "par")
            ELSE ZeroCurve(objs,
                           SetItem(zero_items, tenor,
                                   (IF tenor \in DOMAIN zero_items THEN zero_items[tenor]
                                    ELSE zero(objs, curve, tenor)) + shift),
                           "zero")
    IN IF made.raised THEN [raised |-> TRUE, heap |-> objs, result |-> 0] ELSE made

\* tuple order of (pillar, value)
PairBefore(a, b) == a[1] < b[1] \/ (a[1] = b[1] /\ a[2] <= b[2])

RECURSIVE InsertPair(_, _)
InsertPair(sorted, pair) ==
    IF sorted = <<>> THEN <<pair>>
    ELSE IF PairBefore(pair, Head(sorted)) THEN <<pair>> \o sorted
    ELSE <<Head(sorted)>> \o InsertPair(Tail(sorted), pair)

\* sorted(zip(pillars, values))
RECURSIVE SortedPairs(_, _, _)
SortedPairs(pillars, values, i) ==
    IF i > Len(pillars) THEN <<>>
    ELSE InsertPair(SortedPairs(pillars, values, i + 1), <<pillars[i], values[i]>>)

\* Interpolator.__init__; raised stands for the ValueError of lines 22, 24
\* and 33
Interpolator(kind, pillars, values) ==
    LET sorted_pairs == SortedPairs(pillars, values, 1)
        sorted_pillars == [i \in 1..Len(sorted_pairs) |-> sorted_pairs[i][1]]
    IN IF Len(pillars) # Len(values) \/ Len(pillars) < 2
       THEN [kind |-> kind, raised |-> TRUE]
       ELSE IF Cardinality({sorted_pillars[i] : i \in 1..Len(sorted_pillars)})
                 # Len(sorted_pillars)
       THEN [kind |-> kind, raised |-> TRUE]
       ELSE [kind |-> kind, raised |-> FALSE,
             pillars |-> sorted_pillars,
             values |-> [i \in 1..Len(sorted_pairs) |-> sorted_pairs[i][2]],
             forward_rates |-> <<>>,
             log_dfs |-> <<>>]

\* OISDiscountCurve.__init__: the curve holds the very lists it is handed;
\* the interpolator it creates of them raises on a repeated pillar time
OISDiscountCurve(objs, pillar_times, discount_factors) ==
    IF \/ Len(objs[pillar_times].items) # Len(objs[discount_factors].items)
       \/ Len(objs[pillar_times].items) < 2
       \/ \E i \in DOMAIN objs[discount_factors].items :
             objs[discount_factors].items[i] <= 0
       \/ Interpolator("LOGLINEAR_ZERO", objs[pillar_times].items,
                       objs[discount_factors].items).raised
    THEN [raised |-> TRUE, heap |-> objs, result |-> 0]
    ELSE [raised |-> FALSE,
          heap |-> SetItem(objs, NewId(objs),
                           [type |-> "OISDiscountCurve", pillar_times |-> pillar_times,
                            discount_factors |-> discount_factors]),
          result |-> NewId(objs)]

DaysPerYear == 365

\* OISDiscountCurve.shift_parallel: zero rates in basis points
shift_parallel(objs, curve, shift_bp) ==
    LET times == objs[objs[curve].pillar_times].items
        dfs == objs[objs[curve].discount_factors].items
        new_discount_factors ==
            [i \in DOMAIN times |->
                IF times[i] > 0
                THEN LET zero_rate == RoundDiv(-LnPx(dfs[i]) * DaysPerYear, times[i])
                     IN ExpPx(-RoundDiv((zero_rate + shift_bp) * times[i], DaysPerYear))
                ELSE dfs[i]]
        times_id == NewId(objs)
        with_times == SetItem(objs, times_id, List(times))
        dfs_id == NewId(with_times)
        made == OISDiscountCurve(SetItem(with_times, dfs_id, List(new_discount_factors)),
                                 times_id, dfs_id)
    IN IF made.raised THEN [raised |-> TRUE, heap |-> objs, result |-> 0] ELSE made

\* OISDiscountCurve.with_spot_stub
with_spot_stub(objs, curve, stub_time, stub_discount) ==
    LET times == objs[objs[curve].pillar_times].items
        dfs == objs[objs[curve].discount_factors].items
        times_id == NewId(objs)
        with_times == SetItem(objs, times_id, List(<<stub_time>> \o times))
        dfs_id == NewId(with_times)
        made == OISDiscountCurve(SetItem(with_times, dfs_id,
                                         List(<<stub_discount>> \o dfs)),
                                 times_id, dfs_id)
    IN IF stub_time <= 0 \/ stub_time >= times[1]
          \/ ~(0 < stub_discount /\ stub_discount < DiscOne)
       THEN [raised |-> FALSE, heap |-> objs, result |-> curve]
       ELSE IF made.raised THEN [raised |-> TRUE, heap |-> objs, result |-> 0]
       ELSE made

-----------------------------------------------------------------------------
(* Bump calls: a curve is built, then bumps are called on the curves the   *)
(* caller holds, the results of earlier bumps among them                   *)

\* the curves a caller comes to hold: the one built and the results
MaxCurves == 3

\* par yields and zero rates of the curve built, in basis points
BumpYields == {300, 340}

BumpTenors == {QuarterYear, 3, HalfYear}
BumpSizes == {1, -5}

\* (stub_time in days, stub_discount)
SpotStubs == {<<2, 9999>>, <<400, 9999>>}

\* the heap with the curve built, and the curve: a percent dict, a list of
\* CurveNode, a ZeroCurve of either kind, an OISDiscountCurve
CurvesBuilt ==
    {[heap |-> SetItem(<<>>, 1, Dict(SetItem(SetItem(<<>>, QuarterYear, a), 8, b))),
      held |-> [id |-> 1, rep |-> "percent_dict"]] : a, b \in BumpYields}
    \cup
    {[heap |-> SetItem(SetItem(SetItem(<<>>, 1, CurveNode(QuarterYear, a * 100)),
                               2, CurveNode(8, b * 100)),
                       3, List(<<1, 2>>)),
      held |-> [id |-> 3, rep |-> "node_list"]] : a, b \in BumpYields}
    \cup
    {[heap |-> made.heap, held |-> [id |-> made.result, rep |-> made.heap[made.result].kind]] :
        made \in {ZeroCurve(<<>>, SetItem(SetItem(<<>>, QuarterYear, a * 100),
                                          HalfYear, b * 100), kind) :
                     a, b \in BumpYields, kind \in {"par", "zero"}}}
    \cup
    {[heap |-> made.heap, held |-> [id |-> made.result, rep |-> "ois"]] :
        made \in {OISDiscountCurve(
                     SetItem(SetItem(<<>>, 1, List(<<182, 365>>)),
                             2, List(<<DiscOne - a \div 2, DiscOne - b>>)), 1, 2) :
                     a, b \in BumpYields}}

InitBump ==
    /\ SchedIdle /\ PriceIdle /\ YtmIdle /\ BisectIdle /\ BootIdle /\ IborIdle
    /\ pc = "curve_built"
    /\ call = NoCall
    /\ \E built \in CurvesBuilt :
          /\ heap = built.heap
          /\ ret = [raised |-> FALSE, result |-> built.held.id, held |-> {built.held}]

\* what a bump call leaves: the objects made, the result, and the curve the
\* caller now holds besides the others; a call that raises leaves no curve
Returned(r, rep) ==
    /\ heap' = r.heap
    /\ ret' = [raised |-> r.raised, result |-> r.result,
               held |-> IF r.raised THEN ret.held
                        ELSE ret.held \cup {[id |-> r.result, rep |-> rep]}]

BumpParCurve ==
    /\ Cardinality(ret.held) < MaxCurves
    /\ \E target \in {c \in ret.held : c.rep \in {"percent_dict", "node_list"}},
          key_tenor \in BumpTenors, bump_bp \in BumpSizes :
          /\ call' = [fn |-> "_bump_par_curve", target |-> target,
                      tenor |-> key_tenor, bump_bp |-> bump_bp]
          /\ Returned(_bump_par_curve(heap, target.id, key_tenor, bump_bp), target.rep)
    /\ pc' = "_bump_par_curve"
    /\ UNCHANGED notCall

ShiftParCurve ==
    /\ Cardinality(ret.held) < MaxCurves
    /\ \E target \in {c \in ret.held : c.rep = "percent_dict"},
          tenor \in BumpTenors, shift_bp \in BumpSizes :
          /\ call' = [fn |-> "_shift_par_curve", target |-> target,
                      tenor |-> tenor, bump_bp |-> shift_bp]
          /\ Returned(_shift_par_curve(heap, target.id, tenor, shift_bp), target.rep)
    /\ pc' = "_shift_par_curve"
    /\ UNCHANGED notCall

CloneWithShiftedNode ==
    /\ Cardinality(ret.held) < MaxCurves
    /\ \E target \in {c \in ret.held : c.rep \in {"par", "zero"}},
          tenor \in BumpTenors, shift_bp \in BumpSizes :
          /\ call' = [fn |-> "clone_with_shifted_node", target |-> target,
                      tenor |-> tenor, bump_bp |-> shift_bp]
          /\ Returned(clone_with_shifted_node(heap, target.id, tenor, shift_bp),
                      target.rep)
    /\ pc' = "clone_with_shifted_node"
    /\ UNCHANGED notCall

ShiftParallel ==
    /\ Cardinality(ret.held) < MaxCurves
    /\ \E target \in {c \in ret.held : c.rep = "ois"}, shift_bp \in BumpSizes :
          /\ call' = [fn |-> "shift_parallel", target |-> target, tenor |-> 0,
                      bump_bp |-> shift_bp]
          /\ Returned(shift_parallel(heap, target.id, shift_bp), target.rep)
    /\ pc' = "shift_parallel"
    /\ UNCHANGED notCall

WithSpotStub ==
    /\ Cardinality(ret.held) < MaxCurves
    /\ \E target \in {c \in ret.held : c.rep = "ois"}, stub \in SpotStubs :
          /\ call' = [fn |-> "with_spot_stub", target |-> target, tenor |-> stub[1],
                      bump_bp |-> 0]
          /\ Returned(with_spot_stub(heap, target.id, stub[1], stub[2]), target.rep)
    /\ pc' = "with_spot_stub"
    /\ UNCHANGED notCall

NextBump ==
    \/ BumpParCurve
    \/ ShiftParCurve
    \/ CloneWithShiftedNode
    \/ ShiftParallel
    \/ WithSpotStub

SpecBump == InitBump /\ [][NextBump]_vars

-----------------------------------------------------------------------------
(* Claims about the curve bumps *)

\* the decimal par yield a held par curve has at a tenor, read at the node
\* of the tenor or, where the representation interpolates, between its nodes
NodeYield(objs, nodes_list, tenor) ==
    LET found == {i \in 1..Len(objs[nodes_list].items) :
                     objs[objs[nodes_list].items[i]].tenor_years = tenor}
    IN objs[objs[nodes_list].items[CHOOSE i \in found : TRUE]].ytm

DecimalOfPercent(value) == value * (YieldOne \div (100 * PercentOne))

ParYield(objs, c, tenor) ==
    CASE c.rep = "percent_dict" ->
            DecimalOfPercent(IF tenor \in DOMAIN objs[c.id].items
                             THEN objs[c.id].items[tenor]
                             ELSE linear_interpolate(tenor, objs[c.id].items))
      [] c.rep = "node_list" -> NodeYield(objs, c.id, tenor)
      [] c.rep = "par" ->
            IF tenor \in DOMAIN objs[objs[c.id].par_nodes].items
            THEN objs[objs[c.id].par_nodes].items[tenor]
            ELSE linear_interpolate(tenor, objs[objs[c.id].par_nodes].items)

\* C13: a key-rate bump of b basis points moves the par yield of the key
\* tenor by b * 0.0001 in decimal terms (in size; the direction is the
\* function's), whichever representation the par curve is held in: percent
\* dict, list of decimal nodes, par nodes of a ZeroCurve.
C13_BumpIsBasisPoints ==
    (/\ pc \in {"_bump_par_curve", "_shift_par_curve", "clone_with_shifted_node"}
     /\ ~ret.raised
     /\ call.target.rep \in {"percent_dict", "node_list", "par"})
        => Abs(ParYield(heap, [id |-> ret.result, rep |-> call.target.rep], call.tenor)
                 - ParYield(heap, call.target, call.tenor))
              = Abs(call.bump_bp) * (YieldOne \div 10000)

-----------------------------------------------------------------------------
(* The entry points that take quoted rates                                 *)
(*                                                                         *)
(* src/swap/curves/ibor/bootstrap/instruments.py, builder.py and           *)
(* src/bond/ktb/curve.py.  A caller holds a list of quoted rates and hands *)
(* it to create_instrument_from_quote (one quote at a time), to            *)
(* IborCurveBuilder.set_ois_quotes or, as the nodes of a par curve, to     *)
(* _normalize_nodes.  Swap rates are in units of 1/10000 (a rate of 1.0 is *)
(* 10000), bond yields in units of 1/YieldOne.                             *)

\* builder.py: IborCurveBuilder.set_ois_quotes, up to the quotes it hands to
\* OISBootstrapper.bootstrap, which takes the rates as they are
set_ois_quotes(quotes) ==
    IF quotes = <<>> THEN [raised |-> TRUE, prepared |-> <<>>]
    ELSE [raised |-> FALSE,
          prepared |-> [i \in 1..Len(quotes) |->
                          [tenor |-> quotes[i].tenor,
                           rate |-> IF quotes[i].rate > 10000
                                    THEN RoundDiv(quotes[i].rate, 100)
                                    ELSE quotes[i].rate]]]

MaxQuotes == 2
QuotedRates == {-25000, -10000, -250, 250, 10000, 30000}
QuotedRateLists == UNION {[1..n -> QuotedRates] : n \in 0..MaxQuotes}

InitNorm ==
    /\ SchedIdle /\ PriceIdle /\ YtmIdle /\ BisectIdle /\ BootIdle /\ IborIdle
    /\ pc = "quotes_given"
    /\ heap = <<>>
    /\ ret = NoCall
    /\ \E quoted \in QuotedRateLists : call = [fn |-> "NONE", quoted |-> quoted]

\* the quotes of the caller: a 6M deposit, then swaps of 12M, 24M, ...
QuoteOf(quoted, i) ==
    [instrument |-> IF i = 1 THEN EURIBOR_6M_DEPOSIT ELSE EURIBOR_6M_FLOATING,
     tenor |-> IF i = 1 THEN 6 ELSE 12 * (i - 1), rate |-> quoted[i]]

CreateInstrumentFromQuote ==
    /\ \E i \in 1..Len(call.quoted) :
          /\ call' = [fn |-> "create_instrument_from_quote", quoted |-> call.quoted,
                      rates |-> <<call.quoted[i]>>, one |-> 10000]
          /\ LET made == create_instrument_from_quote(
                                IborCurveDate, QuoteOf(call.quoted, i))
             IN ret' = [raised |-> FALSE,
                        rates |-> <<IF made.kind = "deposit" THEN made.rate
                                    ELSE made.fixed_rate>>]
    /\ pc' = "create_instrument_from_quote"
    /\ UNCHANGED <<heap, notCall>>

SetOisQuotes ==
    /\ LET r == set_ois_quotes([i \in 1..Len(call.quoted) |-> QuoteOf(call.quoted, i)])
       IN ret' = [raised |-> r.raised,
                  rates |-> [i \in 1..Len(r.prepared) |-> r.prepared[i].rate]]
    /\ call' = [fn |-> "set_ois_quotes", quoted |-> call.quoted,
                rates |-> call.quoted, one |-> 10000]
    /\ pc' = "set_ois_quotes"
    /\ UNCHANGED <<heap, notCall>>

\* the quoted rates as the par yields of the tenors 0.25Y, 0.5Y, ...
NormalizeNodes ==
    /\ LET items == [t \in {QuarterYear * i : i \in 1..Len(call.quoted)} |->
                        call.quoted[t \div QuarterYear] * (YieldOne \div 10000)]
           r == _normalize_nodes(items)
       IN /\ ret' = [raised |-> r.raised,
                     rates |-> [i \in 1..Len(call.quoted) |-> r.items[QuarterYear * i]]]
          /\ call' = [fn |-> "_normalize_nodes", quoted |-> call.quoted,
                      rates |-> [i \in 1..Len(call.quoted) |-> items[QuarterYear * i]],
                      one |-> YieldOne]
    /\ pc' = "_normalize_nodes"
    /\ UNCHANGED <<heap, notCall>>

NextNorm ==
    \/ CreateInstrumentFromQuote
    \/ SetOisQuotes
    \/ NormalizeNodes

SpecNorm == InitNorm /\ [][NextNorm]_vars

\* C14: every entry point converts a quoted rate r to r/100 exactly when
\* |r| >= 1.0 and leaves it as it is otherwise, each quote judged by itself:
\* a rate of exactly 1.0 and a negative rate such as -2.5 are percent.
C14_PercentJudgedPerQuote ==
    (pc \in {"create_instrument_from_quote", "set_ois_quotes", "_normalize_nodes"}
       /\ ~ret.raised)
        => \A i \in 1..Len(call.rates) :
              ret.rates[i] = IF Abs(call.rates[i]) >= call.one
                             THEN RoundDiv(call.rates[i], 100)
                             ELSE call.rates[i]

-----------------------------------------------------------------------------
(* The OIS discount curve bootstrap: swap/curves/ois                       *)
(*                                                                         *)
(* A tenor is the record of its number and its unit ("M" or "Y"), a rate   *)
(* is in units of 1/10000, a discount factor in units of 1/DiscOne, a time *)
(* of the ACT/365F axis in days.                                           *)

\* date_calculator.py: tenor_to_months
tenor_to_months(tenor) == IF tenor.unit = "M" THEN tenor.n ELSE tenor.n * 12

\* bootstrap_engine.py: CustomOISBootstrapEngine._is_short_term
_is_short_term(tenor) ==
    CASE tenor.unit \in {"D", "W"} -> TRUE
      [] tenor.unit = "M" -> tenor.n < 12
      [] tenor.unit = "Y" -> tenor.n < 1
      [] OTHER -> FALSE

\* bootstrapper.py: OISBootstrapper._is_single_period_tenor
_is_single_period_tenor(tenor) ==
    CASE tenor.unit \in {"D", "W"} -> TRUE
      [] tenor.unit = "M" -> tenor.n <= 12
      [] tenor.unit = "Y" -> tenor.n <= 1
      [] OTHER -> FALSE

OISInstrument(tenor, rate, maturity) ==
    [tenor |-> tenor, rate |-> rate, maturity_date |-> maturity]

\* CustomOISBootstrapEngine.__init__, day count ACT/360
CustomOISBootstrapEngine(reference_date) ==
    [reference_date |-> reference_date,
     spot_date |-> get_spot_date(reference_date),
     pillar_dates |-> <<>>,
     discount_factors |-> <<>>]

\* rate * ACT/360 year fraction, in units of 1/DiscOne
RateTimesDcf(rate, start_date, end_date) ==
    RoundDiv(rate * DaysBetween(start_date, end_date), 360)

\* df = math.exp(-instrument.rate * dcf)
_solve_short_term_df(engine, instrument) ==
    ExpPx(-RateTimesDcf(instrument.rate, engine.spot_date, instrument.maturity_date))

\* date(current.year + 1, current.month, current.day), the 28th when that
\* day does not exist
NextYear(current) ==
    IF DayOf(current) > DaysInMonth(YearOf(current) + 1, MonthOf(current))
    THEN MkDate(YearOf(current) + 1, MonthOf(current), 28)
    ELSE MkDate(YearOf(current) + 1, MonthOf(current), DayOf(current))

RECURSIVE YearlyDates(_, _)
YearlyDates(current, years) ==
    IF years = 0 THEN <<>>
    ELSE <<NextYear(current)>> \o YearlyDates(NextYear(current), years - 1)

_generate_payment_schedule(engine, instrument) ==
    IF instrument.tenor.unit \notin {"Y", "M"}
    THEN <<engine.spot_date, instrument.maturity_date>>
    ELSE LET years == IF instrument.tenor.unit = "Y" THEN instrument.tenor.n
                      ELSE instrument.tenor.n \div 12
             schedule == <<engine.spot_date>> \o YearlyDates(engine.spot_date, years)
         IN IF schedule[Len(schedule)] # instrument.maturity_date
            THEN [schedule EXCEPT ![Len(schedule)] = instrument.maturity_date]
            ELSE schedule

\* pillar_dates.index(target_date)
IndexOf(dates, target_date) ==
    CHOOSE i \in 1..Len(dates) :
        dates[i] = target_date /\ \A j \in 1..(i - 1) : dates[j] # target_date

\* the discount factor or, for None, 0
_interpolate_df(engine, target_date, pillar_dates, discount_factors) ==
    LET T(d) == DaysBetween(engine.reference_date, d)
        n == Len(pillar_dates)
        between == {i \in 1..(n - 1) :
                       pillar_dates[i] <= target_date /\ target_date < pillar_dates[i + 1]}
    IN IF pillar_dates = <<>> THEN 0
       ELSE IF \E i \in 1..n : pillar_dates[i] = target_date
       THEN discount_factors[IndexOf(pillar_dates, target_date)]
       ELSE IF target_date <= engine.spot_date THEN DiscOne
       ELSE IF target_date < pillar_dates[1]
       THEN (IF T(pillar_dates[1]) <= T(engine.spot_date) THEN DiscOne
             ELSE ExpPx(RoundDiv(LnPx(discount_factors[1])
                                   * (T(target_date) - T(engine.spot_date)),
                                 T(pillar_dates[1]) - T(engine.spot_date))))
       ELSE IF between # {}
       THEN LET i == CHOOSE k \in between : \A j \in between : k <= j
                t1 == T(pillar_dates[i])
                t2 == T(pillar_dates[i + 1])
            IN IF t2 = t1 THEN discount_factors[i]
               ELSE RoundDiv(discount_factors[i]
                               * ExpPx(-RoundDiv((LnPx(discount_factors[i])
                                                    - LnPx(discount_factors[i + 1]))
                                                   * (T(target_date) - t1), t2 - t1)),
                             DiscOne)
       ELSE IF target_date >= pillar_dates[n] THEN discount_factors[n]
       ELSE 0

\* residual of _solve_long_term_df
RECURSIVE OisFixedPv(_, _, _, _, _)
OisFixedPv(engine, instrument, payment_dates, df_candidate, i) ==
    IF i > Len(payment_dates) - 1 THEN 0
    ELSE LET found == _interpolate_df(engine, payment_dates[i + 1],
                                      Append(engine.pillar_dates, instrument.maturity_date),
                                      Append(engine.discount_factors, df_candidate))
             df == IF found = 0 THEN DiscOne ELSE found
         IN RoundDiv(RateTimesDcf(instrument.rate, payment_dates[i], payment_dates[i + 1])
                       * df, DiscOne)
            + OisFixedPv(engine, instrument, payment_dates, df_candidate, i + 1)

OisResidual(engine, instrument, payment_dates, df_candidate) ==
    OisFixedPv(engine, instrument, payment_dates, df_candidate, 1)
      - (DiscOne - df_candidate)

\* the while loop of _bracket_ois_solution
RECURSIVE OisBracketLoop(_, _, _, _)
OisBracketLoop(engine, instrument, payment_dates, s) ==
    IF ~(Sgn(s.res_lower) * Sgn(s.res_upper) > 0 /\ s.attempts < BracketAttempts)
    THEN s
    ELSE IF Abs(s.res_lower) < Abs(s.res_upper)
    THEN With(RoundDiv(s.lower, 2), LAMBDA lower :
              OisBracketLoop(engine, instrument, payment_dates,
                             [s EXCEPT !.lower = lower,
                                       !.res_lower = OisResidual(engine, instrument,
                                                                 payment_dates, lower),
                                       !.attempts = s.attempts + 1]))
    ELSE With(RoundDiv(s.upper * 6, 5), LAMBDA upper :
              OisBracketLoop(engine, instrument, payment_dates,
                             [s EXCEPT !.upper = upper,
                                       !.res_upper = OisResidual(engine, instrument,
                                                                 payment_dates, upper),
                                       !.attempts = s.attempts + 1]))

_bracket_ois_solution(engine, instrument, payment_dates) ==
    With(OisBracketLoop(engine, instrument, payment_dates,
                        [lower |-> DiscOne \div 100, upper |-> (3 * DiscOne) \div 2,
                         res_lower |-> OisResidual(engine, instrument, payment_dates,
                                                   DiscOne \div 100),
                         res_upper |-> OisResidual(engine, instrument, payment_dates,
                                                   (3 * DiscOne) \div 2),
                         attempts |-> 0]),
         LAMBDA s :
         [raised |-> Sgn(s.res_lower) * Sgn(s.res_upper) > 0,
          lower |-> s.lower, upper |-> s.upper])

\* _bisect_ois_solution on the grid of the discount factors: one round of
\* the for loop; its tolerances are below one unit of the grid
OisSwapBisectRound(engine, instrument, payment_dates, s) ==
    IF s.returned THEN s
    ELSE
    With(Mid(s.lower, s.upper), LAMBDA mid :
    With(OisResidual(engine, instrument, payment_dates, mid), LAMBDA res_mid :
       IF Abs(res_mid) < 1 \/ Abs(s.upper - s.lower) < 1
       THEN [s EXCEPT !.mid = mid, !.returned = TRUE]
       ELSE IF Sgn(s.res_lower) * Sgn(res_mid) <= 0 THEN [s EXCEPT !.upper = mid]
       ELSE [s EXCEPT !.lower = mid, !.res_lower = res_mid]))

RECURSIVE OisSwapBisectLoop(_, _, _, _, _)
OisSwapBisectLoop(engine, instrument, payment_dates, s, n) ==
    IF n = 0 THEN s
    ELSE IF n = 1 THEN OisSwapBisectRound(engine, instrument, payment_dates, s)
    ELSE With(OisSwapBisectLoop(engine, instrument, payment_dates, s, n \div 2),
              LAMBDA t : OisSwapBisectLoop(engine, instrument, payment_dates, t,
                                           n - (n \div 2)))

OisSwapBisectSolution(engine, instrument, payment_dates, lower, upper) ==
    With(OisSwapBisectLoop(engine, instrument, payment_dates,
                           [lower |-> lower, upper |-> upper,
                            res_lower |-> OisResidual(engine, instrument,
                                                      payment_dates, lower),
                            mid |-> 0, returned |-> FALSE],
                           OisBisectIterations),
         LAMBDA s : IF s.returned THEN s.mid ELSE Mid(s.lower, s.upper))

_solve_long_term_df(engine, instrument) ==
    With(_generate_payment_schedule(engine, instrument), LAMBDA payment_dates :
       IF Len(payment_dates) < 2
       THEN [raised |-> FALSE, df |-> _solve_short_term_df(engine, instrument)]
       ELSE With(_bracket_ois_solution(engine, instrument, payment_dates), LAMBDA b :
            IF b.raised THEN [raised |-> TRUE, df |-> 0]
            ELSE With(OisSwapBisectSolution(engine, instrument, payment_dates,
                                            b.lower, b.upper),
                      LAMBDA df_final : [raised |-> df_final <= 0, df |-> df_final])))

_solve_discount_factor(engine, instrument) ==
    IF _is_short_term(instrument.tenor)
    THEN [raised |-> FALSE, df |-> _solve_short_term_df(engine, instrument)]
    ELSE _solve_long_term_df(engine, instrument)

\* the for loop of CustomOISBootstrapEngine.bootstrap
RECURSIVE OisEngineRounds(_, _, _)
OisEngineRounds(engine, sorted_instruments, i) ==
    IF i > Len(sorted_instruments) THEN [raised |-> FALSE, engine |-> engine]
    ELSE With(_solve_discount_factor(engine, sorted_instruments[i]), LAMBDA solved :
            IF solved.raised THEN [raised |-> TRUE, engine |-> engine]
            ELSE OisEngineRounds(
                    [engine EXCEPT
                       !.pillar_dates = Append(engine.pillar_dates,
                                               sorted_instruments[i].maturity_date),
                       !.discount_factors = Append(engine.discount_factors, solved.df)],
                    sorted_instruments, i + 1))

\* CustomOISBootstrapEngine.bootstrap: the curve as its pillar times and
\* discount factors
ois_engine_bootstrap(engine, instruments) ==
    With(OisEngineRounds(engine, SortByMaturity(instruments), 1), LAMBDA done :
       [raised |-> done.raised,
        pillar_times |-> [i \in 1..Len(done.engine.pillar_dates) |->
                             DaysBetween(engine.reference_date,
                                         done.engine.pillar_dates[i])],
        pillar_dates |-> done.engine.pillar_dates,
        discount_factors |-> done.engine.discount_factors])

\* OISBootstrapper._process_quotes: the quotes of set_ois_quotes and of
\* bootstrap_ois_curve have no maturity date
_process_quotes(reference_date, quotes) ==
    [i \in 1..Len(quotes) |->
        [tenor |-> quotes[i].tenor, rate |-> quotes[i].rate,
         maturity_date |-> compute_maturity(reference_date,
                                            tenor_to_months(quotes[i].tenor))]]

\* QuoteProcessor.validate_quotes
validate_quotes(quotes) == Len(quotes) >= 2

_bootstrap_with_custom_engine(reference_date, quotes) ==
    IF ~validate_quotes(quotes)
    THEN [raised |-> TRUE, pillar_times |-> <<>>, pillar_dates |-> <<>>,
          discount_factors |-> <<>>]
    ELSE With(SortByMaturity(_process_quotes(reference_date, quotes)),
              LAMBDA processed_quotes :
              ois_engine_bootstrap(
                 CustomOISBootstrapEngine(reference_date),
                 [i \in 1..Len(processed_quotes) |->
                     OISInstrument(processed_quotes[i].tenor, processed_quotes[i].rate,
                                   processed_quotes[i].maturity_date)]))

\* OISBootstrapper._calc_manual_front_stub_df, fixed leg ACT/360: the pair
\* (manual_df, front_stub_df) or, for None, the pair of zeros; an
\* existing_stub_df of None is 0
_calc_manual_front_stub_df(reference_date, quote, existing_stub_df) ==
    LET spot_date == get_spot_date(reference_date)
        alpha_days == DaysBetween(spot_date, quote.maturity_date)
        log1p == LnPx(DiscOne + RateTimesDcf(quote.rate, spot_date, quote.maturity_date))
        front_stub_df ==
            IF existing_stub_df = 0
            THEN ExpPx(-RoundDiv(log1p * DaysBetween(reference_date, spot_date),
                                 alpha_days))
            ELSE existing_stub_df
    IN IF alpha_days <= 0 THEN <<0, 0>>
       ELSE <<RoundDiv(front_stub_df * ExpPx(-log1p), DiscOne), front_stub_df>>

\* QuantLib's calendar.advance(ql_ref_date, period, bdc)
_get_maturity_ql_date(reference_date, quote) ==
    adjust_date(apply_end_of_month_rule(reference_date, tenor_to_months(quote.tenor),
                                        FALSE),
                "MODIFIED_FOLLOWING")

\* the for loop of OISBootstrapper._extract_curve_data; curve_discount[idx]
\* is what the QuantLib curve answers for the quote
RECURSIVE ExtractRounds(_, _, _, _, _)
ExtractRounds(reference_date, quotes, curve_discount, s, idx) ==
    IF idx > Len(quotes) THEN s
    ELSE LET manual_df == _calc_manual_front_stub_df(reference_date, quotes[idx],
                                                     s.manual_front_stub_df)
             single == _is_single_period_tenor(quotes[idx].tenor) /\ manual_df # <<0, 0>>
         IN ExtractRounds(reference_date, quotes, curve_discount,
               [pillar_times |-> Append(s.pillar_times,
                                        DaysBetween(reference_date,
                                                    _get_maturity_ql_date(reference_date,
                                                                          quotes[idx]))),
                discount_factors |-> Append(s.discount_factors,
                                            IF single THEN manual_df[1]
                                            ELSE curve_discount[idx]),
                manual_front_stub_df |-> IF single /\ s.manual_front_stub_df = 0
                                         THEN manual_df[2]
                                         ELSE s.manual_front_stub_df],
               idx + 1)

_extract_curve_data(reference_date, quotes, curve_discount) ==
    ExtractRounds(reference_date, quotes, curve_discount,
                  [pillar_times |-> <<>>, discount_factors |-> <<>>,
                   manual_front_stub_df |-> 0], 1)

\* OISBootstrapper._bootstrap_with_quantlib, given the discount factors the
\* QuantLib curve has at the maturities of the sorted quotes
_bootstrap_with_quantlib(reference_date, quotes, curve_discount) ==
    IF ~validate_quotes(quotes)
    THEN [raised |-> TRUE, pillar_times |-> <<>>, pillar_dates |-> <<>>,
          discount_factors |-> <<>>]
    ELSE With(SortByMaturity(_process_quotes(reference_date, quotes)),
              LAMBDA processed_quotes :
              With(_extract_curve_data(reference_date, processed_quotes, curve_discount),
                   LAMBDA data :
                   [raised |-> FALSE,
                    pillar_times |-> data.pillar_times,
                    pillar_dates |-> [i \in 1..Len(processed_quotes) |->
                                         processed_quotes[i].maturity_date],
                    discount_factors |-> data.discount_factors]))

MaxOisQuotes == 2
OisCurveDate == MkDate(2024, 1, 15)
OisTenors == {[n |-> 6, unit |-> "M"], [n |-> 12, unit |-> "M"],
              [n |-> 1, unit |-> "Y"], [n |-> 2, unit |-> "Y"]}
OisRates == {250, -50}
OisQuotes == [tenor : OisTenors, rate : OisRates]
OisQuoteLists == UNION {[1..n -> OisQuotes] : n \in 1..MaxOisQuotes}

\* what the QuantLib curve may answer at a maturity
QuantlibDiscounts == {9500, 10010}

InitOis ==
    /\ SchedIdle /\ PriceIdle /\ YtmIdle /\ BisectIdle /\ BootIdle /\ IborIdle
    /\ pc = "ois_quotes_given"
    /\ heap = <<>>
    /\ ret = NoCall
    /\ \E quotes \in OisQuoteLists :
          call = [fn |-> "NONE", reference_date |-> OisCurveDate, quotes |-> quotes]

\* the quotes sorted, as both paths sort them, with the curve returned
Bootstrapped(fn, curve) ==
    /\ call' = [call EXCEPT !.fn = fn]
    /\ ret' = [raised |-> curve.raised,
               quotes |-> IF curve.raised THEN <<>>
                          ELSE SortByMaturity(_process_quotes(call.reference_date,
                                                              call.quotes)),
               curve |-> curve]
    /\ pc' = fn
    /\ UNCHANGED <<heap, notCall>>

\* OISBootstrapper.bootstrap(quotes, use_quantlib=False)
BootstrapWithCustomEngine ==
    Bootstrapped("_bootstrap_with_custom_engine",
                 _bootstrap_with_custom_engine(call.reference_date, call.quotes))

\* OISBootstrapper.bootstrap(quotes) when QuantLib builds the curve
BootstrapWithQuantlib ==
    \E curve_discount \in [1..Len(call.quotes) -> QuantlibDiscounts] :
       Bootstrapped("_bootstrap_with_quantlib",
                    _bootstrap_with_quantlib(call.reference_date, call.quotes,
                                             curve_discount))

NextOis ==
    \/ BootstrapWithCustomEngine
    \/ BootstrapWithQuantlib

SpecOis == InitOis /\ [][NextOis]_vars

\* C15: an OIS quote of a tenor of at most one year, 1Y and 12M included,
\* gets the discount factor exp(-rate * accrual(spot, maturity)) of the
\* single-coupon closed form, and the tenor test that selects this path
\* answers the same in the primary bootstrapper and in the fallback engine.
C15_ShortTenorClosedForm ==
    (pc \in {"_bootstrap_with_custom_engine", "_bootstrap_with_quantlib"}
       /\ ~ret.raised)
        => \A i \in 1..Len(ret.quotes) :
              tenor_to_months(ret.quotes[i].tenor) <= 12
                 => /\ ret.curve.discount_factors[i]
                         = ExpPx(-RateTimesDcf(ret.quotes[i].rate,
                                               get_spot_date(call.reference_date),
                                               ret.quotes[i].maturity_date))
                    /\ _is_short_term(ret.quotes[i].tenor)
                         = _is_single_period_tenor(ret.quotes[i].tenor)

-----------------------------------------------------------------------------
(* bond/ktb/analytics.py: the module and its callers                       *)
(*                                                                         *)
(* The module holds _VALUATION_DATE (None is NoDate); date.today() is the  *)
(* date of the wall clock.  heap is the record of the two.  ret.seen holds *)
(* every call made so far with its arguments and what it returned.         *)

\* settlement = _VALUATION_DATE or date.today()
ValuationOrToday(module) ==
    IF module._VALUATION_DATE # NoDate THEN module._VALUATION_DATE ELSE module.today

set_valuation_date(module, value) == [module EXCEPT !._VALUATION_DATE = value]

MaxCalls == 2
AnalyticsBonds ==
    {[issue |-> MkDate(FirstYear - 1, 1, 15), maturity |-> m, coupon |-> 200,
      payments_per_year |-> 2] :
        m \in {MkDate(FirstYear, 8, 31), MkDate(FirstYear + 1, 1, 15)}}
FirstToday == MkDate(FirstYear, 2, 28)
LastToday == MkDate(FirstYear, 3, 1)

InitAnalytics ==
    /\ SchedIdle /\ PriceIdle /\ YtmIdle /\ BisectIdle /\ BootIdle /\ IborIdle
    /\ pc = "analytics_imported"
    /\ heap = [_VALUATION_DATE |-> NoDate, today |-> FirstToday]
    /\ call = NoCall
    /\ ret = [raised |-> FALSE, result |-> NoResult, seen |-> {}]

SetValuationDate ==
    /\ \E value \in Settlements \cup {NoDate} :
          /\ heap' = set_valuation_date(heap, value)
          /\ call' = [fn |-> "set_valuation_date", args |-> <<value>>]
    /\ pc' = "set_valuation_date"
    /\ UNCHANGED <<ret, notCall>>

\* the wall clock passes midnight
Midnight ==
    /\ heap.today < LastToday
    /\ heap' = [heap EXCEPT !.today = NextDay(heap.today)]
    /\ UNCHANGED <<pc, call, ret, notCall>>

Called(fn, args, result) ==
    /\ call' = [fn |-> fn, args |-> args]
    /\ ret' = [raised |-> FALSE, result |-> result,
               seen |-> ret.seen \cup {[fn |-> fn, args |-> args, result |-> result]}]
    /\ pc' = fn
    /\ UNCHANGED <<heap, notCall>>

PriceFromYtm ==
    /\ Cardinality(ret.seen) < MaxCalls
    /\ \E b \in AnalyticsBonds, y \in QuotedYields :
          Called("price_from_ytm", <<b, y>>,
                 [root |-> price_from_ytm(ValuationOrToday(heap), b.issue, b.maturity,
                                          b.coupon, b.payments_per_year, y)])

YtmFromPriceCalled ==
    /\ Cardinality(ret.seen) < MaxCalls
    /\ \E b \in AnalyticsBonds, price_dirty \in {9900, 10050} :
          Called("ytm_from_price", <<b, price_dirty>>,
                 ytm_from_price(ValuationOrToday(heap), b.issue, b.maturity, b.coupon,
                                b.payments_per_year, price_dirty))

NextAnalytics ==
    \/ SetValuationDate
    \/ Midnight
    \/ PriceFromYtm
    \/ YtmFromPriceCalled

SpecAnalytics == InitAnalytics /\ [][NextAnalytics]_vars

\* C16: what price_from_ytm and ytm_from_price return is determined by the
\* arguments of the call alone: two calls of the same function with the
\* same arguments return the same, whatever set_valuation_date was called
\* with in between and whatever the date of the wall clock.
C16_ResultFromArgumentsOnly ==
    pc \in {"price_from_ytm", "ytm_from_price"}
       => \A a, b \in ret.seen :
             (a.fn = b.fn /\ a.args = b.args) => a.result = b.result

-----------------------------------------------------------------------------
(* bond/ktb/bond.py: the risk metrics of a KTB object                      *)
(*                                                                         *)
(* heap[id] is a KTB object: the record KTB of its constructor arguments   *)
(* and the attribute _term_to_next_coupon, NoTerm for None.  A yield is in *)
(* percent in units of 1/PercentOne, a term and a weight in units of       *)
(* 1/DiscOne, a duration in units of 1/DiscOne of a year.                  *)

NoTerm == -1

\* KTB.__init__
KTBObject(kb) == [type |-> "KTB", bond |-> kb, _term_to_next_coupon |-> NoTerm]

\* round(a / b) of Python, ties to the even integer, for a >= 0 and b > 0
PyRound(a, b) ==
    LET whole == a \div b
        rest == a % b
    IN IF 2 * rest < b THEN whole
       ELSE IF 2 * rest > b THEN whole + 1
       ELSE IF whole % 2 = 0 THEN whole ELSE whole + 1

_months_between(start, end) ==
    (YearOf(end) - YearOf(start)) * 12 + MonthOf(end) - MonthOf(start)

\* KTB.adjacent_payment_dates: the for loop from index i
RECURSIVE AdjacentPaymentFrom(_, _, _, _)
AdjacentPaymentFrom(kb, dates, i, as_of) ==
    IF i > Len(dates) THEN <<dates[Len(dates)], dates[Len(dates)]>>
    ELSE IF dates[i] > as_of
    THEN <<IF i > 1 THEN dates[i - 1] ELSE kb.issue, dates[i]>>
    ELSE AdjacentPaymentFrom(kb, dates, i + 1, as_of)

adjacent_payment_dates(kb, as_of) ==
    With(payment_schedule(kb), LAMBDA dates :
       IF as_of < dates[1] THEN <<kb.issue, dates[1]>>
       ELSE AdjacentPaymentFrom(kb, dates, 1, as_of))

\* sum(coupon / discount_rate**i for i in range(remaining_payments))
RECURSIVE CouponsAtNext(_, _, _, _)
CouponsAtNext(coupon, discount_rate, remaining_payments, i) ==
    IF i >= remaining_payments THEN 0
    ELSE RoundDiv(coupon * PowInv(discount_rate, i), DiscOne)
         + CouponsAtNext(coupon, discount_rate, remaining_payments, i + 1)

\* KTB.dirty_price
dirty_price(kb, ytm_percent, val_date) ==
    With(cash_flows(kb), LAMBDA flows :
       IF flows = <<>> \/ val_date >= flows[Len(flows)][1] THEN 0
       ELSE
       LET adjacent == adjacent_payment_dates(kb, val_date)
           remaining_payments ==
               Cardinality({i \in 1..Len(flows) : flows[i][1] >= adjacent[2]})
           discount_rate == DiscOne + RoundDiv(ytm_percent * (10000 \div PercentOne), 2 * 100)
           coupon == coupon_amount(kb.face_value, kb.coupon, 12 \div kb.pymt_freq)
           price_at_next ==
               CouponsAtNext(coupon, discount_rate, remaining_payments, 0)
                 + RoundDiv(kb.face_value * PowInv(discount_rate, remaining_payments - 1),
                            DiscOne)
           days_to_next == DaysBetween(val_date, adjacent[2])
           days_in_period == Max(DaysBetween(adjacent[1], adjacent[2]), 1)
       IN RoundDiv(price_at_next * DiscOne,
                   DiscOne + RoundDiv((discount_rate - DiscOne) * days_to_next,
                                      days_in_period)))

\* KTB._get_term_to_next_coupon: the objects after the call and the term
_get_term_to_next_coupon(objs, self, val_date) ==
    IF objs[self]._term_to_next_coupon # NoTerm
    THEN [heap |-> objs, term |-> objs[self]._term_to_next_coupon]
    ELSE LET adjacent == adjacent_payment_dates(objs[self].bond, val_date)
             term == IF adjacent[1] # adjacent[2]
                     THEN RoundDiv(DaysBetween(val_date, adjacent[2]) * DiscOne,
                                   DaysBetween(adjacent[1], adjacent[2]))
                     ELSE 0
         IN [heap |-> [objs EXCEPT ![self]._term_to_next_coupon = term], term |-> term]

\* the present value of coupon i of the loops of modified_duration and
\* convexity, as a weight of the dirty price
CouponWeight(kb, per_period, term_to_next, dirty, power, last) ==
    LET coupon == coupon_amount(kb.face_value, kb.coupon, 12 \div kb.pymt_freq)
        at_next == RoundDiv((coupon + IF last THEN kb.face_value ELSE 0)
                               * PowInv(DiscOne + per_period, power), DiscOne)
        present_value == RoundDiv(at_next * DiscOne,
                                  DiscOne + RoundDiv(per_period * term_to_next, DiscOne))
    IN RoundDiv(present_value * DiscOne, dirty)

\* the for loop of modified_duration from coupon i
RECURSIVE DurationSum(_, _, _, _, _, _, _, _)
DurationSum(kb, val_date, per_period, term_to_next, dirty, num_coupons, i, power) ==
    IF i > num_coupons THEN 0
    ELSE LET coupon_date == _add_months(kb.issue, kb.pymt_freq * i)
         IN IF coupon_date > val_date
            THEN RoundDiv(CouponWeight(kb, per_period, term_to_next, dirty, power,
                                       i = num_coupons)
                            * DaysBetween(val_date, coupon_date), DaysPerYear)
                 + DurationSum(kb, val_date, per_period, term_to_next, dirty,
                               num_coupons, i + 1, power + 1)
            ELSE DurationSum(kb, val_date, per_period, term_to_next, dirty,
                             num_coupons, i + 1, power)

\* KTB.modified_duration with dirty_price=None: the objects after the call
\* and the duration
modified_duration(objs, self, ytm_percent, val_date) ==
    LET kb == objs[self].bond
        per_period == RoundDiv(ytm_percent * (10000 \div PercentOne) * kb.pymt_freq,
                               100 * 12)
    IN With(dirty_price(kb, ytm_percent, val_date), LAMBDA dirty :
       With(_get_term_to_next_coupon(objs, self, val_date), LAMBDA got :
       [heap |-> got.heap,
        result |-> RoundDiv(DurationSum(kb, val_date, per_period, got.term, dirty,
                                        PyRound(_months_between(kb.issue, kb.maturity),
                                                kb.pymt_freq), 1, 0) * DiscOne,
                            DiscOne + per_period)]))

\* the for loop of convexity from coupon i
RECURSIVE ConvexitySum(_, _, _, _, _, _, _, _)
ConvexitySum(kb, val_date, per_period, term_to_next, dirty, num_coupons, i, power) ==
    IF i > num_coupons THEN 0
    ELSE LET coupon_date == _add_months(kb.issue, kb.pymt_freq * i)
             time_to_payment == RoundDiv(DaysBetween(val_date, coupon_date) * DiscOne,
                                         DaysPerYear)
         IN IF coupon_date > val_date
            THEN MulDiv(MulDiv(CouponWeight(kb, per_period, term_to_next, dirty, power,
                                            i = num_coupons),
                               time_to_payment, DiscOne),
                        time_to_payment + RoundDiv(DiscOne * kb.pymt_freq, 12), DiscOne)
                 + ConvexitySum(kb, val_date, per_period, term_to_next, dirty,
                                num_coupons, i + 1, power + 1)
            ELSE ConvexitySum(kb, val_date, per_period, term_to_next, dirty,
                              num_coupons, i + 1, power)

\* KTB.convexity with dirty_price=None
convexity(objs, self, ytm_percent, val_date) ==
    LET kb == objs[self].bond
        per_period == RoundDiv(ytm_percent * (10000 \div PercentOne) * kb.pymt_freq,
                               100 * 12)
    IN With(dirty_price(kb, ytm_percent, val_date), LAMBDA dirty :
       With(_get_term_to_next_coupon(objs, self, val_date), LAMBDA got :
       [heap |-> got.heap,
        result |-> MulDiv(MulDiv(ConvexitySum(kb, val_date, per_period, got.term, dirty,
                                              PyRound(_months_between(kb.issue,
                                                                      kb.maturity),
                                                      kb.pymt_freq), 1, 0),
                                 DiscOne, DiscOne + per_period),
                          DiscOne, DiscOne + per_period)]))

KtbBonds ==
    {KTB(MkDate(FirstYear - 1, 1, 15), MkDate(FirstYear + 1, 1, 15), c, 6, FaceValue) :
        c \in {300, MaxCoupon}}
KtbYields == {300, 350, 400}
KtbValuationDates ==
    {MkDate(FirstYear, 1, 15), MkDate(FirstYear, 3, 1), MkDate(FirstYear, 10, 1)}

InitKtb ==
    /\ SchedIdle /\ PriceIdle /\ YtmIdle /\ BisectIdle /\ BootIdle /\ IborIdle
    /\ pc = "ktb_constructed"
    /\ \E kb \in KtbBonds : heap = <<KTBObject(kb)>>
    /\ call = NoCall
    /\ ret = [result |-> 0, calls |-> 0]

ModifiedDuration ==
    /\ ret.calls < MaxCalls
    /\ \E ytm_percent \in KtbYields, val_date \in KtbValuationDates :
          /\ call' = [fn |-> "modified_duration", self |-> 1, ytm |-> ytm_percent,
                      valuation_date |-> val_date]
          /\ LET r == modified_duration(heap, 1, ytm_percent, val_date)
             IN /\ heap' = r.heap
                /\ ret' = [result |-> r.result, calls |-> ret.calls + 1]
    /\ pc' = "modified_duration"
    /\ UNCHANGED notCall

Convexity ==
    /\ ret.calls < MaxCalls
    /\ \E ytm_percent \in KtbYields, val_date \in KtbValuationDates :
          /\ call' = [fn |-> "convexity", self |-> 1, ytm |-> ytm_percent,
                      valuation_date |-> val_date]
          /\ LET r == convexity(heap, 1, ytm_percent, val_date)
             IN /\ heap' = r.heap
                /\ ret' = [result |-> r.result, calls |-> ret.calls + 1]
    /\ pc' = "convexity"
    /\ UNCHANGED notCall

NextKtb ==
    \/ ModifiedDuration
    \/ Convexity

SpecKtb == InitKtb /\ [][NextKtb]_vars

\* C17: nothing computed in one pricing call is reused by a later one: in
\* any sequence of modified_duration and convexity calls on one KTB object
\* with different valuation dates, each call returns what an object newly
\* constructed from the same arguments returns for that valuation date.
C17_EachCallAsOnFreshObject ==
    /\ pc = "modified_duration"
          => ret.result = modified_duration(<<KTBObject(heap[call.self].bond)>>, 1,
                                            call.ytm, call.valuation_date).result
    /\ pc = "convexity"
          => ret.result = convexity(<<KTBObject(heap[call.self].bond)>>, 1,
                                    call.ytm, call.valuation_date).result

-----------------------------------------------------------------------------
(* bond/utils/date.py: the expiries of the KTB futures                     *)
(*                                                                         *)
(* holidays is the set of the dates of the holiday list handed in.         *)

_is_business_day(dt, holidays) == Weekday(dt) \notin {5, 6} /\ dt \notin holidays

RECURSIVE ToTuesday(_)
ToTuesday(dt) == IF Weekday(dt) = 1 THEN dt ELSE ToTuesday(NextDay(dt))

RECURSIVE BackToBusinessDay(_, _)
BackToBusinessDay(dt, holidays) ==
    IF _is_business_day(dt, holidays) THEN dt
    ELSE BackToBusinessDay(PrevDay(dt), holidays)

func_third_tuesday(date_like, holidays) ==
    BackToBusinessDay(ToTuesday(MkDate(YearOf(date_like), MonthOf(date_like), 15)),
                      holidays)

\* while q_anchor.month % 3 != 0: q_anchor += relativedelta(months=1)
RECURSIVE QuarterAnchor(_)
QuarterAnchor(q_anchor) ==
    IF MonthOf(q_anchor) % 3 = 0 THEN q_anchor
    ELSE QuarterAnchor(_add_months(q_anchor, 1))

futures_termination_date(date_like, holidays) ==
    LET third_tuesday == func_third_tuesday(date_like, holidays)
    IN IF MonthOf(third_tuesday) \in {3, 6, 9, 12}
       THEN (IF date_like < third_tuesday
             THEN <<third_tuesday,
                    func_third_tuesday(_add_months(third_tuesday, 3), holidays)>>
             ELSE <<func_third_tuesday(_add_months(third_tuesday, 3), holidays),
                    func_third_tuesday(_add_months(third_tuesday, 6), holidays)>>)
       ELSE <<func_third_tuesday(QuarterAnchor(third_tuesday), holidays),
              func_third_tuesday(_add_months(QuarterAnchor(third_tuesday), 3),
                                 holidays)>>

\* the days of a year from the first of a month to the last of another
DaysOfMonths(y, first_month, last_month) ==
    UNION {{MkDate(y, m, d) : d \in 1..DaysInMonth(y, m)} :
              m \in first_month..last_month}

TradeDates == DaysOfMonths(FirstYear, 2, 6)

\* no holiday, or the third Tuesdays of March and June 2024 as holidays
HolidayLists == {{}, {MkDate(2024, 3, 19), MkDate(2024, 6, 18)}}

InitFutures ==
    /\ SchedIdle /\ PriceIdle /\ YtmIdle /\ BisectIdle /\ BootIdle /\ IborIdle
    /\ pc = "call_futures_termination_date"
    /\ heap = <<>>
    /\ ret = NoCall
    /\ \E date_like \in TradeDates, holidays \in HolidayLists :
          call = [fn |-> "futures_termination_date", date_like |-> date_like,
                  holidays |-> holidays]

FuturesTerminationDate ==
    /\ pc = "call_futures_termination_date"
    /\ ret' = [result |-> futures_termination_date(call.date_like, call.holidays)]
    /\ pc' = "futures_termination_date"
    /\ UNCHANGED <<call, heap, notCall>>

NextFutures == FuturesTerminationDate

SpecFutures == InitFutures /\ [][NextFutures]_vars

\* C19: for a trade date in a quarter month (March, June, September,
\* December) on or before the holiday-rolled third-Tuesday expiry of that
\* month, the expiry date itself included, futures_termination_date returns
\* that expiry and the expiry of the next quarter; only a trade date in
\* another month or strictly after the expiry gets the next two expiries.
C19_ExpiryDayKeepsCurrentExpiry ==
    pc = "futures_termination_date"
       => LET expiry == func_third_tuesday(call.date_like, call.holidays)
              current == <<expiry,
                           func_third_tuesday(_add_months(expiry, 3), call.holidays)>>
          IN IF MonthOf(call.date_like) \in {3, 6, 9, 12} /\ call.date_like <= expiry
             THEN ret.result = current
             ELSE ret.result # current

-----------------------------------------------------------------------------
(* The helpers that add months to a date when schedule dates are made:     *)
(* apply_end_of_month_rule (swap/schedule/adjustments.py), _add_months     *)
(* (utils/schedule.py) and the yearly step of                              *)
(* CustomOISBootstrapEngine._generate_payment_schedule.                    *)

StartDates == DaysOfMonths(FirstYear - 1, 2, 2) \cup DaysOfMonths(FirstYear, 1, 2)
MonthsToAdd == {1, 6, 12}

InitMonths ==
    /\ SchedIdle /\ PriceIdle /\ YtmIdle /\ BisectIdle /\ BootIdle /\ IborIdle
    /\ pc = "date_given"
    /\ heap = <<>>
    /\ ret = NoCall
    /\ \E dt \in StartDates, months \in MonthsToAdd :
          call = [fn |-> "NONE", dt |-> dt, months |-> months]

MonthsAdded(fn, start_date, result) ==
    /\ call' = [call EXCEPT !.fn = fn]
    /\ ret' = [start |-> start_date, result |-> result]
    /\ pc' = fn
    /\ UNCHANGED <<heap, notCall>>

ApplyEndOfMonthRule ==
    /\ pc = "date_given"
    /\ MonthsAdded("apply_end_of_month_rule", call.dt,
                   apply_end_of_month_rule(call.dt, call.months, TRUE))

AddMonths ==
    /\ pc = "date_given"
    /\ MonthsAdded("_add_months", call.dt, _add_months(call.dt, call.months))

\* the schedule of a 2Y quote of the engine whose reference date is the date
\* given: spot, spot plus one year, maturity
GeneratePaymentSchedule ==
    /\ pc = "date_given"
    /\ call.months = 12
    /\ LET engine == CustomOISBootstrapEngine(call.dt)
           tenor == [n |-> 2, unit |-> "Y"]
           schedule == _generate_payment_schedule(
                          engine, OISInstrument(tenor, 250,
                                                compute_maturity(call.dt,
                                                                 tenor_to_months(tenor))))
       IN MonthsAdded("_generate_payment_schedule", schedule[1], schedule[2])

NextMonths ==
    \/ ApplyEndOfMonthRule
    \/ AddMonths
    \/ GeneratePaymentSchedule

SpecMonths == InitMonths /\ [][NextMonths]_vars

\* C20: every month-addition helper follows the end-of-month rule: from a
\* start that is the last calendar day of its month the result is the last
\* calendar day of the target month; from another start the day of the
\* month is kept, or is the last day of the target month when the target
\* month has no such day.
C20_EndOfMonthRule ==
    pc \in {"apply_end_of_month_rule", "_add_months", "_generate_payment_schedule"}
       => LET k == MonthOf(ret.start) - 1 + call.months
              year == YearOf(ret.start) + (k \div 12)
              month == (k % 12) + 1
              last == DaysInMonth(year, month)
          IN ret.result =
                MkDate(year, month,
                       IF DayOf(ret.start) = DaysInMonth(YearOf(ret.start),
                                                         MonthOf(ret.start))
                       THEN last
                       ELSE IF DayOf(ret.start) <= last THEN DayOf(ret.start)
                       ELSE last)

-----------------------------------------------------------------------------
(* The two builders of a KTB coupon schedule: KTB.payment_schedule and     *)
(* KTB.cash_flows (bond/ktb/bond.py), coupon_schedule and coupon_cashflows *)
(* (utils/schedule.py, utils/cashflows.py).                                *)

\* issue dates: a mid-month day, the 30th and 31st of a long month, the last
\* day of a 30-day month and of February
IssueDates ==
    {MkDate(FirstYear - 1, 1, 15), MkDate(FirstYear - 1, 8, 30),
     MkDate(FirstYear - 1, 8, 31), MkDate(FirstYear - 1, 11, 30),
     MkDate(FirstYear - 1, 2, 28)}

\* months between coupons
CouponSpacings == {3, 6, 12}

\* maturities one and two years after issue, and one ten days later than that
CouponMaturities(issue) ==
    {_add_months(issue, 12), _add_months(issue, 24),
     MkDate(YearOf(issue) + 1, MonthOf(issue), 10)} \ {issue}

InitCoupon ==
    /\ SchedIdle /\ PriceIdle /\ YtmIdle /\ BisectIdle /\ BootIdle /\ IborIdle
    /\ pc = "bond_given"
    /\ heap = <<>>
    /\ ret = NoCall
    /\ \E issue \in IssueDates, months \in CouponSpacings :
       \E maturity \in CouponMaturities(issue) :
          call = [fn |-> "NONE", issue |-> issue, maturity |-> maturity,
                  months |-> months, coupon |-> MaxCoupon]

DatesOf(flows) == [i \in 1..Len(flows) |-> flows[i][1]]
AmountsOf(flows) == [i \in 1..Len(flows) |-> flows[i][2]]

ScheduleBuilt(fn, dates, amounts) ==
    /\ call' = [call EXCEPT !.fn = fn]
    /\ ret' = [dates |-> dates, amounts |-> amounts]
    /\ pc' = fn
    /\ UNCHANGED <<heap, notCall>>

PaymentSchedule ==
    /\ pc = "bond_given"
    /\ ScheduleBuilt("payment_schedule",
                     payment_schedule(KTB(call.issue, call.maturity, call.coupon,
                                          call.months, FaceValue)),
                     <<>>)

CashFlows ==
    /\ pc = "bond_given"
    /\ LET flows == cash_flows(KTB(call.issue, call.maturity, call.coupon,
                                   call.months, FaceValue))
       IN ScheduleBuilt("cash_flows", DatesOf(flows), AmountsOf(flows))

CouponSchedule ==
    /\ pc = "bond_given"
    /\ ScheduleBuilt("coupon_schedule",
                     coupon_schedule(call.issue, call.maturity, 12 \div call.months),
                     <<>>)

BuildCouponCashflows ==
    /\ pc = "bond_given"
    /\ LET flows == coupon_cashflows(call.issue, call.maturity, call.coupon,
                                     12 \div call.months, FaceValue)
       IN ScheduleBuilt("coupon_cashflows", DatesOf(flows), AmountsOf(flows))

NextCoupon ==
    \/ PaymentSchedule
    \/ CashFlows
    \/ CouponSchedule
    \/ BuildCouponCashflows

SpecCoupon == InitCoupon /\ [][NextCoupon]_vars

\* C21: whichever builder made the schedule, its last date is the maturity
\* date, and the flow of that date is the one that carries the redemption.
C21_LastDateIsMaturity ==
    pc \in {"payment_schedule", "cash_flows", "coupon_schedule", "coupon_cashflows"}
       => /\ Len(ret.dates) >= 1
          /\ ret.dates[Len(ret.dates)] = call.maturity
          /\ ret.amounts # <<>>
                => /\ ret.amounts[Len(ret.amounts)] > FaceValue
                   /\ \A i \in 1..(Len(ret.amounts) - 1) : ret.amounts[i] < FaceValue

\* the day of the month a coupon of the bond falls on in the month of dt
CouponDay(issue, dt) ==
    LET last == DaysInMonth(YearOf(dt), MonthOf(dt))
    IN IF DayOf(issue) = DaysInMonth(YearOf(issue), MonthOf(issue)) THEN last
       ELSE Min(DayOf(issue), last)

\* C22: every coupon date before maturity falls on the issue date's day of
\* the month, or on the last day of its month when the issue date is a
\* month end or the month has no such day; a short month on the way does
\* not move later coupons to a smaller day.
C22_CouponDayFollowsIssue ==
    pc \in {"payment_schedule", "cash_flows", "coupon_schedule", "coupon_cashflows"}
       => \A i \in 1..Len(ret.dates) :
             ret.dates[i] < call.maturity
                => DayOf(ret.dates[i]) = CouponDay(call.issue, ret.dates[i])

-----------------------------------------------------------------------------
(* Accrued interest and the flows still to come at a settlement date:      *)
(* utils/schedule.py previous_and_next_coupon, utils/cashflows.py          *)
(* accrued_interest and future_cashflows, bond/utils/daycount.py           *)

\* ACT/365F, in days: the year fraction times 365.  Reversed dates are
\* swapped.
_act_365f(start, end) ==
    IF end < start THEN DaysBetween(end, start) ELSE DaysBetween(start, end)

\* the for loop of previous_and_next_coupon from the i-th date on
RECURSIVE PreviousAndNextFrom(_, _, _, _)
PreviousAndNextFrom(settlement_date, schedule, i, prev) ==
    IF i > Len(schedule) THEN <<schedule[Len(schedule)], schedule[Len(schedule)]>>
    ELSE IF schedule[i] >= settlement_date THEN <<prev, schedule[i]>>
    ELSE PreviousAndNextFrom(settlement_date, schedule, i + 1, schedule[i])

previous_and_next_coupon(settlement_date, schedule, issue) ==
    IF settlement_date <= schedule[1] THEN <<issue, schedule[1]>>
    ELSE PreviousAndNextFrom(settlement_date, schedule, 1, schedule[1])

accrued_interest(issue, maturity, coupon_rate, payments_per_year, settlement_date, face) ==
    With(coupon_schedule(issue, maturity, payments_per_year), LAMBDA schedule :
       IF settlement_date >= schedule[Len(schedule)] THEN 0
       ELSE LET adjacent == previous_and_next_coupon(settlement_date, schedule, issue)
                accrual_period == _act_365f(adjacent[1], adjacent[2])
                elapsed == _act_365f(adjacent[1], settlement_date)
            IN IF accrual_period <= 0 THEN 0
               ELSE RoundDiv(coupon_amount(face, coupon_rate, payments_per_year) * elapsed,
                             accrual_period))

future_cashflows(settlement_date, flows) ==
    SelectSeq(flows, LAMBDA flow : flow[1] > settlement_date)

\* settlement dates of a bond: its issue date, its coupon dates, the day
\* before and the day after each of them
SettlementDates(issue, maturity, months) ==
    LET schedule == coupon_schedule(issue, maturity, 12 \div months)
        on_coupon == {schedule[i] : i \in 1..Len(schedule)}
    IN {issue} \cup on_coupon \cup {PrevDay(dt) : dt \in on_coupon}
               \cup {NextDay(dt) : dt \in on_coupon}

InitAccrued ==
    /\ SchedIdle /\ PriceIdle /\ YtmIdle /\ BisectIdle /\ BootIdle /\ IborIdle
    /\ pc = "settlement_given"
    /\ heap = <<>>
    /\ ret = NoCall
    /\ \E issue \in IssueDates, months \in CouponSpacings :
       \E maturity \in CouponMaturities(issue) :
       \E settlement_date \in SettlementDates(issue, maturity, months) :
          call = [fn |-> "NONE", issue |-> issue, maturity |-> maturity,
                  months |-> months, coupon |-> MaxCoupon,
                  settlement_date |-> settlement_date]

AccruedInterest ==
    /\ pc = "settlement_given"
    /\ call' = [call EXCEPT !.fn = "accrued_interest"]
    /\ ret' = [result |-> accrued_interest(call.issue, call.maturity, call.coupon,
                                           12 \div call.months, call.settlement_date,
                                           FaceValue),
               flows |-> <<>>]
    /\ pc' = "accrued_interest"
    /\ UNCHANGED <<heap, notCall>>

\* the flows a price at the settlement date discounts
FutureCashflows ==
    /\ pc = "settlement_given"
    /\ call' = [call EXCEPT !.fn = "future_cashflows"]
    /\ ret' = [result |-> 0,
               flows |-> future_cashflows(
                            call.settlement_date,
                            coupon_cashflows(call.issue, call.maturity, call.coupon,
                                             12 \div call.months, FaceValue))]
    /\ pc' = "future_cashflows"
    /\ UNCHANGED <<heap, notCall>>

NextAccrued ==
    \/ AccruedInterest
    \/ FutureCashflows

SpecAccrued == InitAccrued /\ [][NextAccrued]_vars

\* the settlement date of the call is a coupon date before maturity
OnCouponDate ==
    LET schedule == coupon_schedule(call.issue, call.maturity, 12 \div call.months)
    IN \E i \in 1..(Len(schedule) - 1) : schedule[i] = call.settlement_date

\* C30: at a settlement date that is a coupon date before maturity the
\* accrued interest is zero, as the flows priced at that date leave out the
\* coupon paid on it.
C30_NoAccruedOnCouponDate ==
    OnCouponDate
       => /\ pc = "accrued_interest" => ret.result = 0
          /\ pc = "future_cashflows"
                => \A i \in 1..Len(ret.flows) : ret.flows[i][1] # call.settlement_date

-----------------------------------------------------------------------------
(* Initial and final stubs of ScheduleGenerator.generate_schedule          *)

\* the effective date is one of the dates stepped back from maturity by
\* whole periods
RECURSIVE OnRegularGrid(_, _, _, _)
OnRegularGrid(current, eff, months, rollday) ==
    IF current = eff THEN TRUE
    ELSE IF current < eff THEN FALSE
    ELSE OnRegularGrid(_subtract_period(current, months, rollday), eff, months, rollday)

\* C23: LONG_INITIAL mirrors LONG_FINAL: when the effective date is on the
\* regular grid stepped back from maturity, the first period is a regular
\* one and the schedule is the one LONG_FINAL yields.
C23_LongInitialMirrorsLongFinal ==
    (/\ pc = "generate_schedule"
     /\ stub_type = "LONG_INITIAL"
     /\ OnRegularGrid(maturity_date, effective_date,
                      _frequency_to_months(convention.pay_frequency), roll_day))
       => /\ ~gen_periods[1].is_stub
          /\ gen_periods = generate_schedule(effective_date, maturity_date, convention,
                                             "LONG_FINAL", roll_day).periods

-----------------------------------------------------------------------------
(* swap/valuation/solver.py: solve_receive_leg_spread.  Spreads are in     *)
(* basis points; the objective, the target and the tolerance are in the    *)
(* units of a pv.  The bounds and the iteration limits the calls are made  *)
(* with keep every midpoint a whole basis point.                           *)

\* the nested function objective(spread_bp)
objective(sp, cs, vd, target, spread_bp) ==
    With(price_swap([sp EXCEPT !.rec_leg_spread = spread_bp], cs, vd),
         LAMBDA result :
       [value |-> result.rec_leg_pv.pv + result.pay_leg_pv.pv - target,
        result |-> result])

\* Lines 98-99: objective(lower_bound_bp), then objective(upper_bound_bp)
ObjectiveAtBounds(sp, cs, vd, target, lower_bound_bp, upper_bound_bp) ==
    With([bound_bp \in {lower_bound_bp, upper_bound_bp} |->
             objective(sp, cs, vd, target, bound_bp)],
         LAMBDA at : <<at[lower_bound_bp], at[upper_bound_bp]>>)

\* one round of the for loop of lines 119-136; s.raised is "NONE" once a
\* spread has been returned
SpreadBisectRound(sp, cs, vd, target, tolerance, s) ==
    IF s.returned THEN s
    ELSE LET midpoint_bp == (s.lower_bound_bp + s.upper_bound_bp) \div 2
         IN With(objective(sp, cs, vd, target, midpoint_bp), LAMBDA mid :
            LET evaluated == Append(s.evaluated, midpoint_bp)
            IN IF Abs(mid.value) <= tolerance
               THEN [s EXCEPT !.returned = TRUE, !.spread_bp = midpoint_bp,
                              !.result = mid.result, !.evaluated = evaluated]
               ELSE IF Sgn(s.lower_value) * Sgn(mid.value) <= 0
               THEN [s EXCEPT !.upper_bound_bp = midpoint_bp,
                              !.upper_value = mid.value, !.evaluated = evaluated]
               ELSE [s EXCEPT !.lower_bound_bp = midpoint_bp,
                              !.lower_value = mid.value, !.evaluated = evaluated])

RECURSIVE SpreadBisectLoop(_, _, _, _, _, _, _)
SpreadBisectLoop(sp, cs, vd, target, tolerance, s, n) ==
    IF n = 0 THEN s
    ELSE With(SpreadBisectRound(sp, cs, vd, target, tolerance, s), LAMBDA t :
            SpreadBisectLoop(sp, cs, vd, target, tolerance, t, n - 1))

\* raised is "NONE" when (spread_bp, result) is returned; evaluated lists
\* the spreads the objective was called with, in the order of the calls
Solved(raised, spread_bp, result, evaluated) ==
    [raised |-> raised, spread_bp |-> spread_bp, result |-> result,
     evaluated |-> evaluated]

\* solve_receive_leg_spread that goes on to bisect whatever the signs at the
\* bounds are
SolveWithoutBracketCheck(sp, cs, vd, target, tolerance, max_iterations, lower_bound_bp, upper_bound_bp) ==
    With(ObjectiveAtBounds(sp, cs, vd, target, lower_bound_bp, upper_bound_bp),
         LAMBDA at_bounds :
    LET lower == at_bounds[1]
        upper == at_bounds[2]
        evaluated == <<lower_bound_bp, upper_bound_bp>>
    IN IF Abs(lower.value) <= tolerance
       THEN Solved("NONE", lower_bound_bp, lower.result, evaluated)
       ELSE IF Abs(upper.value) <= tolerance
       THEN Solved("NONE", upper_bound_bp, upper.result, evaluated)
       ELSE With(SpreadBisectLoop(sp, cs, vd, target, tolerance,
                    [returned |-> FALSE, spread_bp |-> 0, result |-> NoSwapPV,
                     lower_bound_bp |-> lower_bound_bp, lower_value |-> lower.value,
                     upper_bound_bp |-> upper_bound_bp, upper_value |-> upper.value,
                     evaluated |-> evaluated],
                    max_iterations),
                 LAMBDA s :
                    IF s.returned
                    THEN Solved("NONE", s.spread_bp, s.result, s.evaluated)
                    ELSE Solved("SolverConvergenceError", 0, NoSwapPV, s.evaluated)))

solve_receive_leg_spread(sp, cs, vd, target, tolerance, max_iterations, lower_bound_bp, upper_bound_bp) ==
    With(ObjectiveAtBounds(sp, cs, vd, target, lower_bound_bp, upper_bound_bp),
         LAMBDA at_bounds :
    LET lower == at_bounds[1]
        upper == at_bounds[2]
        evaluated == <<lower_bound_bp, upper_bound_bp>>
    IN IF Abs(lower.value) <= tolerance
       THEN Solved("NONE", lower_bound_bp, lower.result, evaluated)
       ELSE IF Abs(upper.value) <= tolerance
       THEN Solved("NONE", upper_bound_bp, upper.result, evaluated)
       ELSE IF Sgn(lower.value) * Sgn(upper.value) > 0
       THEN Solved("SpreadBracketError", 0, NoSwapPV, evaluated)
       ELSE With(SpreadBisectLoop(sp, cs, vd, target, tolerance,
                    [returned |-> FALSE, spread_bp |-> 0, result |-> NoSwapPV,
                     lower_bound_bp |-> lower_bound_bp, lower_value |-> lower.value,
                     upper_bound_bp |-> upper_bound_bp, upper_value |-> upper.value,
                     evaluated |-> evaluated],
                    max_iterations),
                 LAMBDA s :
                    IF s.returned
                    THEN Solved("NONE", s.spread_bp, s.result, s.evaluated)
                    ELSE Solved("SolverConvergenceError", 0, NoSwapPV, s.evaluated)))

\* the swaps a spread is solved for
SolveSpecs ==
    {sp \in SwapSpecs :
        /\ sp.notional = 1
        /\ sp.effective_date = MkDate(FirstYear, 1, 15)
        /\ sp.maturity_date = MkDate(FirstYear + 1, 1, 15)
        /\ sp.rec_leg_spread = 0
        /\ sp.fixed_rate = 0
        /\ ~sp.discount_coupons_from_spot}

\* (lower_bound_bp, upper_bound_bp): the default width is 1000 bp
SpreadBounds == {<<-512, 512>>, <<0, 512>>}
SpreadIterations == {3, 9}
SpreadTolerances == {1, 4000}

\* the default target, and the targets that put the objective at the lower
\* bound at the tolerance and just beyond it
SpreadTargets(sp, cs, vd, tolerance, lower_bound_bp) ==
    With(objective(sp, cs, vd, 0, lower_bound_bp).value, LAMBDA balance :
       {0, balance - tolerance, balance - tolerance - 1})

InitSolve ==
    /\ SchedIdle /\ YtmIdle /\ BisectIdle /\ BootIdle /\ IborIdle
    /\ pc = "input"
    /\ spec \in SolveSpecs
    /\ curves \in CurveSets
    /\ valuation_date = spec.effective_date
    /\ swap_pv = NoSwapPV
    /\ heap = <<>>
    /\ ret = NoCall
    /\ \E bounds \in SpreadBounds, tolerance \in SpreadTolerances,
          max_iterations \in SpreadIterations :
       \E target \in SpreadTargets(spec, curves, valuation_date, tolerance, bounds[1]) :
          call = [fn |-> "NONE", target |-> target, tolerance |-> tolerance,
                  max_iterations |-> max_iterations,
                  lower_bound_bp |-> bounds[1], upper_bound_bp |-> bounds[2]]

SolveReceiveLegSpread ==
    /\ pc = "input"
    /\ \E solved \in {solve_receive_leg_spread(spec, curves, valuation_date,
                        call.target, call.tolerance, call.max_iterations,
                        call.lower_bound_bp, call.upper_bound_bp)} :
          /\ ret' = [raised |-> solved.raised, spread_bp |-> solved.spread_bp,
                     evaluated |-> solved.evaluated]
          /\ swap_pv' = solved.result
    /\ call' = [call EXCEPT !.fn = "solve_receive_leg_spread"]
    /\ pc' = "solve_receive_leg_spread"
    /\ UNCHANGED <<spec, curves, valuation_date, heap, schedVars, ytmVars,
                   bisectVars, bootVars, iborVars>>

NextSolve == SolveReceiveLegSpread

SpecSolve == InitSolve /\ [][NextSolve]_vars

\* the objective at a bound of the call made
ValueAt(bound_bp) == objective(spec, curves, valuation_date, call.target, bound_bp).value

SameSignAtBounds ==
    Sgn(ValueAt(call.lower_bound_bp)) * Sgn(ValueAt(call.upper_bound_bp)) > 0

-----------------------------------------------------------------------------
(* swap/interpolation: the interpolators.  Pillar times are in days,       *)
(* discount factors in units of 1/DiscOne, zero rates in basis points, a   *)
(* forward rate in units of 1/DiscOne a year, a log discount factor of     *)
(* LogLinearZeroInterpolator in basis points times days.                   *)

LinearDiscountFactorInterpolator(pillars, values) ==
    Interpolator("LINEAR_DF", pillars, values)

PiecewiseConstantInterpolator(pillars, values) ==
    Interpolator("PIECEWISE_CONSTANT", pillars, values)

\* StepForwardContinuousInterpolator.__init__: the forward rates are taken
\* from the arguments
StepForwardContinuousInterpolator(pillars, discount_factors) ==
    With(Interpolator("STEP_FORWARD", pillars, discount_factors), LAMBDA self :
       IF self.raised THEN self
       ELSE [self EXCEPT !.forward_rates =
                [i \in 1..(Len(pillars) - 1) |->
                    RoundDiv((LnPx(discount_factors[i]) - LnPx(discount_factors[i + 1]))
                               * DaysPerYear,
                             pillars[i + 1] - pillars[i])]])

\* LogLinearZeroInterpolator.__init__: the log discount factors are taken
\* from the arguments
LogLinearZeroInterpolator(pillars, zero_rates) ==
    With(Interpolator("LOGLINEAR_ZERO", pillars, zero_rates), LAMBDA self :
       IF self.raised THEN self
       ELSE [self EXCEPT !.log_dfs =
                [i \in 1..Len(pillars) |-> -(zero_rates[i] * pillars[i])]])

create_interpolator(method, pillars, values) ==
    IF method = "LINEAR_DF" THEN LinearDiscountFactorInterpolator(pillars, values)
    ELSE IF method = "LOGLINEAR_ZERO" THEN LogLinearZeroInterpolator(pillars, values)
    ELSE IF method = "PIECEWISE_CONSTANT" THEN PiecewiseConstantInterpolator(pillars, values)
    ELSE StepForwardContinuousInterpolator(pillars, values)

\* np.searchsorted(self.pillars, t, side), as an index from 1 of the pillar
\* before the insertion point
SearchSorted(pillars, t, right) ==
    Cardinality({i \in 1..Len(pillars) :
                    IF right THEN pillars[i] <= t ELSE pillars[i] < t})

\* LinearDiscountFactorInterpolator.interpolate
linear_df_interpolate(self, t) ==
    LET n == Len(self.pillars)
        i == SearchSorted(self.pillars, t, FALSE)
    IN IF t <= self.pillars[1] THEN self.values[1]
       ELSE IF t >= self.pillars[n] THEN self.values[n]
       ELSE self.values[i]
            + RoundDiv((t - self.pillars[i]) * (self.values[i + 1] - self.values[i]),
                       self.pillars[i + 1] - self.pillars[i])

\* PiecewiseConstantInterpolator.interpolate
piecewise_constant_interpolate(self, t) ==
    LET n == Len(self.pillars)
    IN IF t <= self.pillars[1] THEN self.values[1]
       ELSE IF t >= self.pillars[n] THEN self.values[n]
       ELSE self.values[SearchSorted(self.pillars, t, TRUE)]

\* StepForwardContinuousInterpolator.interpolate_discount_factor
interpolate_discount_factor(self, t) ==
    LET n == Len(self.pillars)
        i == SearchSorted(self.pillars, t, FALSE)
        Grow(df, forward_rate, dt) ==
            RoundDiv(df * ExpPx(-RoundDiv(forward_rate * dt, DaysPerYear)), DiscOne)
    IN IF t <= 0 THEN DiscOne
       ELSE IF t <= self.pillars[1]
       THEN ExpPx(RoundDiv(LnPx(self.values[1]) * t, self.pillars[1]))
       ELSE IF t >= self.pillars[n]
       THEN Grow(self.values[n], self.forward_rates[n - 1], t - self.pillars[n])
       ELSE Grow(self.values[i], self.forward_rates[i], t - self.pillars[i])

\* LogLinearZeroInterpolator._interpolate_log_df
_interpolate_log_df(self, t) ==
    LET n == Len(self.pillars)
        i == SearchSorted(self.pillars, t, FALSE)
    IN IF t <= self.pillars[1] THEN -(self.values[1] * t)
       ELSE IF t >= self.pillars[n] THEN -(self.values[n] * t)
       ELSE self.log_dfs[i]
            + RoundDiv((t - self.pillars[i]) * (self.log_dfs[i + 1] - self.log_dfs[i]),
                       self.pillars[i + 1] - self.pillars[i])

\* LogLinearZeroInterpolator.interpolate
loglinear_zero_interpolate(self, t) ==
    IF t <= 0 THEN self.values[1]
    ELSE RoundDiv(-_interpolate_log_df(self, t), t)

\* interpolator.interpolate(t)
interpolate(self, t) ==
    IF self.kind = "LINEAR_DF" THEN linear_df_interpolate(self, t)
    ELSE IF self.kind = "LOGLINEAR_ZERO" THEN loglinear_zero_interpolate(self, t)
    ELSE IF self.kind = "PIECEWISE_CONSTANT" THEN piecewise_constant_interpolate(self, t)
    ELSE interpolate_discount_factor(self, t)

\* the most pillars an interpolator is made of
MaxPillars == 3

PillarTimes == {182, 365, 730}
QueryTimes == {0, 100, 182, 300, 365, 500, 730, 900}

PillarLists ==
    UNION {[1..n -> PillarTimes] : n \in 1..MaxPillars}

\* the value at each pillar time: discount factors, and zero rates in bp
PillarValues ==
    {[kind |-> "df", at |-> (182 :> 9900 @@ 365 :> 9700 @@ 730 :> 9300)],
     [kind |-> "df", at |-> (182 :> 10020 @@ 365 :> 10000 @@ 730 :> 9800)],
     [kind |-> "zero", at |-> (182 :> 200 @@ 365 :> 250 @@ 730 :> 350)],
     [kind |-> "zero", at |-> (182 :> -50 @@ 365 :> 0 @@ 730 :> 120)]}

InitInterp ==
    /\ SchedIdle /\ PriceIdle /\ YtmIdle /\ BisectIdle /\ BootIdle /\ IborIdle
    /\ pc = "pillars_given"
    /\ ret = NoCall
    /\ heap = <<>>
    /\ \E pillars \in PillarLists, curve \in PillarValues :
          call = [fn |-> "NONE", pillars |-> pillars,
                  values |-> [i \in 1..Len(pillars) |-> curve.at[pillars[i]]],
                  kind |-> curve.kind]

Constructed(method, made) ==
    /\ call' = [call EXCEPT !.fn = method]
    /\ heap' = <<made>>
    /\ pc' = IF made.raised THEN "interpolator_raised" ELSE "interpolator"
    /\ UNCHANGED <<ret, notCall>>

NewLinearDiscountFactor ==
    /\ pc = "pillars_given"
    /\ call.kind = "df"
    /\ Constructed("LINEAR_DF",
                   LinearDiscountFactorInterpolator(call.pillars, call.values))

NewStepForwardContinuous ==
    /\ pc = "pillars_given"
    /\ call.kind = "df"
    /\ Constructed("STEP_FORWARD",
                   StepForwardContinuousInterpolator(call.pillars, call.values))

NewLogLinearZero ==
    /\ pc = "pillars_given"
    /\ call.kind = "zero"
    /\ Constructed("LOGLINEAR_ZERO",
                   LogLinearZeroInterpolator(call.pillars, call.values))

NewPiecewiseConstant ==
    /\ pc = "pillars_given"
    /\ call.kind = "zero"
    /\ Constructed("PIECEWISE_CONSTANT",
                   PiecewiseConstantInterpolator(call.pillars, call.values))

Interpolate ==
    /\ pc = "interpolator"
    /\ \E t \in QueryTimes :
          ret' = [t |-> t, result |-> interpolate(heap[1], t)]
    /\ pc' = "interpolate"
    /\ UNCHANGED <<call, heap, notCall>>

NextInterp ==
    \/ NewLinearDiscountFactor
    \/ NewStepForwardContinuous
    \/ NewLogLinearZero
    \/ NewPiecewiseConstant
    \/ Interpolate

SpecInterp == InitInterp /\ [][NextInterp]_vars

\* the pillars and values of the call, in the order of the pillar times
InTimeOrder(pillars, values) ==
    LET sorted_pairs == SortedPairs(pillars, values, 1)
    IN [pillars |-> [i \in 1..Len(sorted_pairs) |-> sorted_pairs[i][1]],
        values |-> [i \in 1..Len(sorted_pairs) |-> sorted_pairs[i][2]]]

\* C25: an interpolator holds its pillars in ascending time, with its values
\* and the per-interval quantities derived from them in that order, so the
\* value interpolated at any t is the one the interpolator made of the same
\* pillars passed in ascending time gives.
C25_PillarOrderDoesNotMatter ==
    LET ordered == InTimeOrder(call.pillars, call.values)
        from_ordered == create_interpolator(call.fn, ordered.pillars, ordered.values)
    IN /\ pc \in {"interpolator", "interpolate"}
            => /\ \A i \in 1..(Len(heap[1].pillars) - 1) :
                     heap[1].pillars[i] < heap[1].pillars[i + 1]
               /\ heap[1] = from_ordered
       /\ pc = "interpolate" => ret.result = interpolate(from_ordered, ret.t)

-----------------------------------------------------------------------------
(* The curve objects a caller is handed: OISDiscountCurve and              *)
(* IborProjectionCurve constructed on pillar lists, the curve of           *)
(* ProjectionCurveState.build_curve, and the curves their shift_parallel   *)
(* and with_spot_stub return.                                              *)

\* IborProjectionCurve.__init__: the curve holds the very lists it is handed;
\* the interpolator it creates of them raises on a repeated pillar time
IborProjectionCurve(objs, pillar_times, pseudo_discount_factors) ==
    IF \/ Len(objs[pillar_times].items) # Len(objs[pseudo_discount_factors].items)
       \/ Len(objs[pillar_times].items) < 2
       \/ \E i \in DOMAIN objs[pseudo_discount_factors].items :
             objs[pseudo_discount_factors].items[i] <= 0
       \/ Interpolator("LOGLINEAR_ZERO", objs[pillar_times].items,
                       objs[pseudo_discount_factors].items).raised
    THEN [raised |-> TRUE, heap |-> objs, result |-> 0]
    ELSE [raised |-> FALSE,
          heap |-> SetItem(objs, NewId(objs),
                           [type |-> "IborProjectionCurve",
                            pillar_times |-> pillar_times,
                            discount_factors |-> pseudo_discount_factors]),
          result |-> NewId(objs)]

\* IborProjectionCurve.shift_parallel
ibor_shift_parallel(objs, curve, shift_bp) ==
    LET times == objs[objs[curve].pillar_times].items
        pdfs == objs[objs[curve].discount_factors].items
        shifted ==
            [i \in DOMAIN times |->
                IF times[i] > 0
                THEN LET zero_rate == RoundDiv(-LnPx(pdfs[i]) * DaysPerYear, times[i])
                     IN ExpPx(-RoundDiv((zero_rate + shift_bp) * times[i], DaysPerYear))
                ELSE pdfs[i]]
        times_id == NewId(objs)
        with_times == SetItem(objs, times_id, List(times))
        pdfs_id == NewId(with_times)
        made == IborProjectionCurve(SetItem(with_times, pdfs_id, List(shifted)),
                                    times_id, pdfs_id)
    IN IF made.raised THEN [raised |-> TRUE, heap |-> objs, result |-> 0] ELSE made

\* ProjectionCurveState.add_pillar called once for each pillar, in the order
\* given
RECURSIVE AddPillars(_, _, _, _)
AddPillars(state, dates, pxs, i) ==
    IF i > Len(dates) THEN state
    ELSE AddPillars([state EXCEPT !.pillars = SetItem(state.pillars, dates[i], pxs[i])],
                    dates, pxs, i + 1)

\* the curve of ProjectionCurveState.build_curve, as an object of the heap
StateCurve(objs, state) ==
    With(build_curve(state), LAMBDA built :
       IF built.raised THEN [raised |-> TRUE, heap |-> objs, result |-> 0]
       ELSE IborProjectionCurve(
               SetItem(SetItem(objs, NewId(objs), List(built.pillar_times)),
                       NewId(objs) + 1, List(built.pseudo_discount_factors)),
               NewId(objs), NewId(objs) + 1))

\* the discount factor at each pillar time
PillarDiscounts ==
    {(182 :> 9900 @@ 365 :> 9700 @@ 730 :> 9300),
     (182 :> 10020 @@ 365 :> 10000 @@ 730 :> 9800)}

InitCurve ==
    /\ SchedIdle /\ PriceIdle /\ YtmIdle /\ BisectIdle /\ BootIdle /\ IborIdle
    /\ pc = "pillars_given"
    /\ ret = NoCall
    /\ \E pillars \in PillarLists, at \in PillarDiscounts :
          /\ heap = <<List(pillars), List([i \in 1..Len(pillars) |-> at[pillars[i]]])>>
          /\ call = [fn |-> "NONE"]

CurveReturned(fn, r) ==
    /\ call' = [fn |-> fn]
    /\ heap' = r.heap
    /\ ret' = [raised |-> r.raised, result |-> r.result]
    /\ pc' = IF r.raised THEN "curve_raised" ELSE "curve"
    /\ UNCHANGED notCall

NewOISDiscountCurve ==
    /\ pc = "pillars_given"
    /\ CurveReturned("OISDiscountCurve", OISDiscountCurve(heap, 1, 2))

NewIborProjectionCurve ==
    /\ pc = "pillars_given"
    /\ CurveReturned("IborProjectionCurve", IborProjectionCurve(heap, 1, 2))

\* a bootstrap's state, with a pillar at the curve date and one at the month
\* of each pillar time, hands its curve out
StateBuildCurve ==
    /\ pc = "pillars_given"
    /\ LET dates == [i \in 1..Len(heap[1].items) |->
                        _add_months(IborCurveDate,
                                    RoundDiv(heap[1].items[i] * 12, DaysPerYear))]
           state == AddPillars(BootstrapEngine(IborCurveDate, OisRate), dates,
                               heap[2].items, 1)
       IN CurveReturned("build_curve", StateCurve(heap, state))

CurveShiftParallel ==
    /\ pc = "curve"
    /\ call.fn \in {"OISDiscountCurve", "IborProjectionCurve", "build_curve"}
    /\ \E shift_bp \in BumpSizes :
          CurveReturned("shift_parallel",
                        IF heap[ret.result].type = "OISDiscountCurve"
                        THEN shift_parallel(heap, ret.result, shift_bp)
                        ELSE ibor_shift_parallel(heap, ret.result, shift_bp))

CurveWithSpotStub ==
    /\ pc = "curve"
    /\ call.fn = "OISDiscountCurve"
    /\ \E stub \in SpotStubs :
          CurveReturned("with_spot_stub",
                        with_spot_stub(heap, ret.result, stub[1], stub[2]))

NextCurve ==
    \/ NewOISDiscountCurve
    \/ NewIborProjectionCurve
    \/ StateBuildCurve
    \/ CurveShiftParallel
    \/ CurveWithSpotStub

SpecCurve == InitCurve /\ [][NextCurve]_vars

\* C26: every curve handed to a caller, by a constructor, by a bootstrap or
\* by a shift or stub operation, has at least two pillars, and their times
\* are strictly increasing.
C26_CurvePillarsIncrease ==
    (pc = "curve" /\ ~ret.raised)
       => LET times == heap[heap[ret.result].pillar_times].items
          IN /\ Len(times) >= 2
             /\ \A i \in 1..(Len(times) - 1) : times[i] < times[i + 1]

-----------------------------------------------------------------------------
(* Day counts: swap/conventions/daycount.py, whose conventions but         *)
(* ACT/360A hand the dates to the QuantLib day counter of their            *)
(* constructor, and bond/utils/daycount.py.  A year fraction is held as    *)
(* its numerator num over the denominator den of the convention.           *)

\* ql.Actual360().yearFraction: the signed days over 360
Actual360(start, end) == [num |-> DaysBetween(start, end), den |-> 360]

\* ql.Actual365Fixed().yearFraction: the signed days over 365
Actual365Fixed(start, end) == [num |-> DaysBetween(start, end), den |-> 365]

\* the 29ths of February in [start_date, end_date)
LeapDaysIn(start_date, end_date) ==
    {y \in YearOf(start_date)..YearOf(end_date) :
        IsLeap(y) /\ start_date <= MkDate(y, 2, 29) /\ MkDate(y, 2, 29) < end_date}

\* Actual360Adjusted.year_fraction
Actual360Adjusted(start, end) ==
    IF start >= end THEN [num |-> 0, den |-> 360]
    ELSE [num |-> DaysBetween(start, end) - Cardinality(LeapDaysIn(start, end)),
          den |-> 360]

\* ql.Thirty360(ql.Thirty360.BondBasis).yearFraction
Thirty360US(start, end) ==
    LET dd1 == Min(DayOf(start), 30)
        dd2 == IF DayOf(end) = 31 /\ dd1 = 30 THEN 30 ELSE DayOf(end)
    IN [num |-> 360 * (YearOf(end) - YearOf(start))
                  + 30 * (MonthOf(end) - MonthOf(start)) + (dd2 - dd1),
        den |-> 360]

\* the days of [first, last) that fall in year y, each worth 365 when the
\* year is a leap year and 366 when it is not, over 365 * 366
RECURSIVE IsdaDays(_, _, _)
IsdaDays(first, last, y) ==
    IF y > YearOf(last) THEN 0
    ELSE LET from == IF y = YearOf(first) THEN first ELSE MkDate(y, 1, 1)
             to == IF y = YearOf(last) THEN last ELSE MkDate(y + 1, 1, 1)
         IN DaysBetween(from, to) * (IF IsLeap(y) THEN 365 ELSE 366)
            + IsdaDays(first, last, y + 1)

\* ql.ActualActual(ql.ActualActual.ISDA).yearFraction: reversed dates give
\* the fraction of the dates in order, negated
ActualActualISDA(start, end) ==
    [num |-> IF start <= end THEN IsdaDays(start, end, YearOf(start))
             ELSE -IsdaDays(end, start, YearOf(end)),
     den |-> 365 * 366]

\* the registry names, each once for the convention it names
DayCountNames == {"ACT/360", "ACT/360A", "ACT/365F", "30E/360", "30U/360", "ACT/ACT"}

\* get_day_count_convention(name).year_fraction(start, end)
year_fraction(name, start, end) ==
    IF name = "ACT/360" THEN Actual360(start, end)
    ELSE IF name = "ACT/360A" THEN Actual360Adjusted(start, end)
    ELSE IF name = "ACT/365F" THEN Actual365Fixed(start, end)
    ELSE IF name = "30E/360" THEN [num |-> Thirty360European(start, end), den |-> 360]
    ELSE IF name = "30U/360" THEN Thirty360US(start, end)
    ELSE ActualActualISDA(start, end)

\* the dates day counts are taken between: month ends, the leap day and the
\* days next to them
DayCountDates ==
    {MkDate(FirstYear - 1, 12, 31), MkDate(FirstYear, 1, 30), MkDate(FirstYear, 1, 31),
     MkDate(FirstYear, 2, 28), MkDate(FirstYear, 2, 29 - (IF IsLeap(FirstYear) THEN 0 ELSE 1)),
     MkDate(FirstYear, 3, 1), MkDate(FirstYear, 7, 15), MkDate(FirstYear + 1, 3, 1)}

InitDayCount ==
    /\ SchedIdle /\ PriceIdle /\ YtmIdle /\ BisectIdle /\ BootIdle /\ IborIdle
    /\ pc = "dates_given"
    /\ ret = NoCall
    /\ heap = <<>>
    /\ \E start \in DayCountDates, end \in DayCountDates :
          call = [fn |-> "NONE", name |-> "NONE", start |-> start, end |-> end]

\* a convention of the swap registry
YearFraction ==
    /\ pc = "dates_given"
    /\ \E name \in DayCountNames :
          /\ call' = [call EXCEPT !.fn = "year_fraction", !.name = name]
          /\ ret' = year_fraction(name, call.start, call.end)
    /\ pc' = "year_fraction"
    /\ UNCHANGED <<heap, notCall>>

\* get_day_count("ACT/365F") of the bond registry
BondYearFraction ==
    /\ pc = "dates_given"
    /\ call' = [call EXCEPT !.fn = "_act_365f", !.name = "ACT/365F"]
    /\ ret' = [num |-> _act_365f(call.start, call.end), den |-> 365]
    /\ pc' = "year_fraction"
    /\ UNCHANGED <<heap, notCall>>

NextDayCount ==
    \/ YearFraction
    \/ BondYearFraction

SpecDayCount == InitDayCount /\ [][NextDayCount]_vars

\* C27: the year fraction of every registered convention is at least 0 for
\* every pair of dates, and is 0 exactly when the two dates are the same.
C27_YearFractionPositive ==
    pc = "year_fraction"
       => /\ ret.num >= 0
          /\ ret.num = 0 <=> call.start = call.end

-----------------------------------------------------------------------------
(* swap/valuation/schedule.py: build_schedule, one round of its while
   loops at a time *)

\* pairs of the backward while loop that the model records; the loop goes
\* on past them
MaxPairs == 16

LoopFrequencies == Frequencies \cup {"DAILY"}

LoopAdjustments == {"NO_ADJUSTMENT", "MODIFIED_FOLLOWING"}

LoopConventions ==
    {[leg_type |-> lt,
      pay_frequency |-> fr,
      business_day_adjustment |-> a,
      pay_delay_days |-> IF lt = "FIXED" THEN 1 ELSE 0,
      has_reset_frequency |-> lt = "FLOATING",
      reset_position |-> IF lt = "FLOATING" THEN "IN_ADVANCE" ELSE "NONE",
      fixing_lag_days |-> IF lt = "FLOATING" THEN 2 ELSE 0] :
        lt \in LegTypes, fr \in LoopFrequencies, a \in LoopAdjustments}

LoopEffectiveDates == {MkDate(FirstYear, 1, 15), MkDate(FirstYear, 1, 31)}

LoopMaturityDates ==
    {MkDate(FirstYear, 1, 15), MkDate(FirstYear, 4, 30),
     MkDate(FirstYear + 1, 1, 15)}

\* what a call of build_schedule leaves alone
notLoop == <<effective_date, maturity_date, convention, stub_type, roll_day,
             gen_periods, ret, heap, priceVars, ytmVars, bisectVars, bootVars,
             iborVars>>

InitLoop ==
    /\ PriceIdle /\ YtmIdle /\ BisectIdle /\ BootIdle /\ IborIdle
    /\ pc = "input"
    /\ effective_date \in LoopEffectiveDates
    /\ maturity_date \in LoopMaturityDates
    /\ convention \in LoopConventions
    /\ stub_type = "NONE"
    /\ roll_day = 0
    /\ periods = <<>>
    /\ gen_periods = <<>>
    /\ call = [fn |-> "none"]
    /\ ret = [fn |-> "none"]
    /\ heap = <<>>

\* Lines 79-112 and 194-196: the locals either mode starts its loop with
EnterBuildSchedule ==
    /\ pc = "input"
    /\ IF convention.leg_type # "FLOATING"
       THEN /\ call' = [fn |-> "build_schedule",
                        period_months |->
                            _frequency_to_months(convention.pay_frequency),
                        current_end_unadj |-> maturity_date,
                        unadj_pairs |-> <<>>,
                        first_end_after_start |-> NoDate]
            /\ pc' = "backward_while"
       ELSE /\ call' = [fn |-> "build_schedule",
                        period_months |->
                            _frequency_to_months(convention.pay_frequency),
                        current_start |-> effective_date,
                        preserve_eom |-> is_end_of_month(effective_date),
                        period_idx |-> 1]
            /\ pc' = "forward_while"
    /\ periods' = <<>>
    /\ UNCHANGED notLoop

\* Line 114: the condition of the backward while loop holds
BackwardEnters ==
    /\ pc = "backward_while"
    /\ call.current_end_unadj > effective_date
    /\ pc' = "backward_round"
    /\ UNCHANGED <<periods, call, notLoop>>

\* Line 114: the condition of the backward while loop fails
BackwardLoopEnds ==
    /\ pc = "backward_while"
    /\ ~(call.current_end_unadj > effective_date)
    /\ pc' = "backward_sort"
    /\ UNCHANGED <<periods, call, notLoop>>

\* Lines 115-132: the body of the backward while loop, to its break or back
\* to the condition
BackwardRound ==
    /\ pc = "backward_round"
    /\ LET prev_start_unadj ==
               apply_end_of_month_rule(call.current_end_unadj,
                                       -call.period_months, TRUE)
       IN IF prev_start_unadj <= effective_date
          THEN /\ call' = [call EXCEPT !.first_end_after_start =
                               IF prev_start_unadj = effective_date
                               THEN call.current_end_unadj
                               ELSE apply_end_of_month_rule(
                                        call.current_end_unadj,
                                        call.period_months, TRUE)]
               /\ pc' = "backward_sort"
          ELSE /\ call' = [call EXCEPT
                               !.unadj_pairs =
                                   IF Len(@) < MaxPairs
                                   THEN Append(@, <<prev_start_unadj,
                                                    call.current_end_unadj>>)
                                   ELSE @,
                               !.current_end_unadj = prev_start_unadj]
               /\ pc' = "backward_while"
    /\ UNCHANGED <<periods, notLoop>>

\* Lines 134-191: the periods of the pairs
BackwardReturn ==
    /\ pc = "backward_sort"
    /\ periods' = BackwardPeriods(convention,
                      InitialPairAdded([pairs |-> call.unadj_pairs,
                                        first_end_after_start |->
                                            call.first_end_after_start],
                                       effective_date, call.period_months), 1)
    /\ pc' = "build_schedule"
    /\ UNCHANGED <<call, notLoop>>

\* Line 197: the condition of the forward while loop holds
ForwardEnters ==
    /\ pc = "forward_while"
    /\ call.current_start < maturity_date
    /\ pc' = "forward_round"
    /\ UNCHANGED <<periods, call, notLoop>>

\* Lines 197 and 250: the condition of the forward while loop fails
ForwardLoopEnds ==
    /\ pc = "forward_while"
    /\ ~(call.current_start < maturity_date)
    /\ pc' = "build_schedule"
    /\ UNCHANGED <<periods, call, notLoop>>

\* Lines 198-248: the body of the forward while loop, to its break or back
\* to the condition with the period it appends
ForwardRound ==
    /\ pc = "forward_round"
    /\ LET stepped == apply_end_of_month_rule(call.current_start,
                                              call.period_months,
                                              call.preserve_eom)
           current_end == IF stepped > maturity_date THEN maturity_date
                          ELSE stepped
           p == MakePeriod(convention, call.period_idx, call.current_start,
                           current_end)
       IN IF \/ call.current_start >= current_end
             \/ p.accrual_start_adj >= p.accrual_end_adj
          THEN /\ pc' = "build_schedule"
               /\ UNCHANGED <<periods, call>>
          ELSE /\ periods' = Append(periods, p)
               /\ call' = [call EXCEPT !.current_start = current_end,
                                       !.period_idx = @ + 1]
               /\ pc' = "forward_while"
    /\ UNCHANGED notLoop

NextLoop ==
    \/ EnterBuildSchedule
    \/ BackwardEnters
    \/ BackwardLoopEnds
    \/ BackwardRound
    \/ BackwardReturn
    \/ ForwardEnters
    \/ ForwardLoopEnds
    \/ ForwardRound

SpecLoop == InitLoop /\ [][NextLoop]_vars

\* the position of a call that has not returned moves on: into a loop, from
\* the condition of the loop into its body or past the loop, from the body
\* back to the condition or out of the loop, to the return
LoopAdvances ==
    \/ pc = "input" /\ pc' \in {"backward_while", "forward_while"}
    \/ pc = "backward_while" /\ pc' \in {"backward_round", "backward_sort"}
    \/ pc = "backward_round" /\ pc' \in {"backward_while", "backward_sort"}
    \/ pc = "backward_sort" /\ pc' = "build_schedule"
    \/ pc = "forward_while" /\ pc' \in {"forward_round", "build_schedule"}
    \/ pc = "forward_round" /\ pc' \in {"forward_while", "build_schedule"}

\* the interpreter runs a call on as long as it has not returned
FairSpecLoop == SpecLoop /\ WF_pc(LoopAdvances)

-----------------------------------------------------------------------------
(* Claims about the loops of build_schedule *)

\* C28: build_schedule terminates, with its list of periods, for every
\* effective and maturity date, leg type and payment frequency that
\* _frequency_to_months accepts, DAILY (0 months) among them: every call
\* reaches its return
C28_BuildScheduleReturns == <>(pc = "build_schedule")

-----------------------------------------------------------------------------
(* swap/curves/ois/bootstrap_engine.py: one CustomOISBootstrapEngine used *)
(* for several calls of bootstrap.  heap.engine is the engine, call holds *)
(* the instruments and the number of calls made on the engine, ret what   *)
(* the last call returned.                                                *)

\* CustomOISBootstrapEngine.bootstrap (lines 64-108): the engine as the call
\* leaves it and the curve it returns; raised stands for an exception of
\* _solve_discount_factor or of the constructor of the curve
engine_bootstrap(engine, instruments) ==
    With(OisEngineRounds(engine, SortByMaturity(instruments), 1), LAMBDA done :
       LET pillar_times == [i \in 1..Len(done.engine.pillar_dates) |->
                               DaysBetween(engine.reference_date,
                                           done.engine.pillar_dates[i])]
           made == OISDiscountCurve(<<List(pillar_times),
                                      List(done.engine.discount_factors)>>, 1, 2)
       IN IF done.raised \/ made.raised
          THEN [engine |-> done.engine, raised |-> TRUE]
          ELSE [engine |-> done.engine, raised |-> FALSE,
                pillar_times |-> pillar_times,
                pillar_dates |-> done.engine.pillar_dates,
                discount_factors |-> done.engine.discount_factors])

EngineInstruments ==
    {[i \in 1..Len(quotes) |->
         OISInstrument(quotes[i].tenor, quotes[i].rate,
                       compute_maturity(OisCurveDate,
                                        tenor_to_months(quotes[i].tenor)))] :
        quotes \in OisQuoteLists}

\* the curve of a call: what it returned without the engine
CurveOf(returned) ==
    IF returned.raised THEN [raised |-> TRUE]
    ELSE [raised |-> FALSE,
          pillar_times |-> returned.pillar_times,
          pillar_dates |-> returned.pillar_dates,
          discount_factors |-> returned.discount_factors]

InitEngine ==
    /\ SchedIdle /\ PriceIdle /\ YtmIdle /\ BisectIdle /\ BootIdle /\ IborIdle
    /\ pc = "engine_made"
    /\ heap = [engine |-> CustomOISBootstrapEngine(OisCurveDate)]
    /\ \E instruments \in EngineInstruments :
          call = [fn |-> "NONE", instruments |-> instruments, calls |-> 0]
    /\ ret = NoCall

\* engine = CustomOISBootstrapEngine(reference_date)
NewEngine ==
    /\ call.calls > 0
    /\ heap' = [engine |-> CustomOISBootstrapEngine(OisCurveDate)]
    /\ call' = [call EXCEPT !.fn = "CustomOISBootstrapEngine", !.calls = 0]
    /\ ret' = NoCall
    /\ pc' = "engine_made"
    /\ UNCHANGED notCall

\* engine.bootstrap(instruments)
EngineBootstrap ==
    /\ call.calls < MaxCalls
    /\ \E returned \in {engine_bootstrap(heap.engine, call.instruments)} :
          /\ heap' = [engine |-> returned.engine]
          /\ ret' = CurveOf(returned)
    /\ call' = [call EXCEPT !.fn = "bootstrap", !.calls = @ + 1]
    /\ pc' = "bootstrap"
    /\ UNCHANGED notCall

NextEngine == NewEngine \/ EngineBootstrap

SpecEngine == InitEngine /\ [][NextEngine]_vars

-----------------------------------------------------------------------------
(* Claims about the reuse of the engine *)

\* C29: bootstrap called again on the same engine with the same instruments
\* gives the pillar dates and the discount factors that one call on a fresh
\* engine gives; the engine holds no pillar of an earlier call, none twice.
C29_SecondBootstrapAsFresh ==
    (pc = "bootstrap" /\ call.calls >= 2)
        => LET fresh == engine_bootstrap(CustomOISBootstrapEngine(OisCurveDate),
                                         call.instruments)
           IN /\ ret = CurveOf(fresh)
              /\ heap.engine.pillar_dates = fresh.engine.pillar_dates
              /\ heap.engine.discount_factors = fresh.engine.discount_factors


=============================================================================
